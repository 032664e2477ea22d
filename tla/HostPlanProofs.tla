--------------------------- MODULE HostPlanProofs ---------------------------
(***************************************************************************)
(* What is true of every plan of HostPlan: the steps it can hold, what     *)
(* comes before what, and that a start follows each write.  A plan is a    *)
(* concatenation, so each fact is shown of its blocks and carried to the   *)
(* whole by induction over their number.                                   *)
(***************************************************************************)
EXTENDS Host, WellFoundedInduction, TLAPS

(* Induction over the natural numbers, for sets.                           *)
Below == {p \in Nat \X Nat : p[1] < p[2]}

LEMMA BelowIsWellFounded == IsWellFoundedOn(Below, Nat)
  BY NatLessThanWellFounded DEF OpToRel, Below

LEMMA LeastNatural ==
  ASSUME NEW T, T \subseteq Nat, T # {}
  PROVE  \E n \in T : \A m \in T : ~(m < n)
<1>1. \E x \in T : \A y \in T : ~(<<y, x>> \in Below)
  BY BelowIsWellFounded, WFMin
<1>2. \A x, y \in Nat : y < x => <<y, x>> \in Below
  BY DEF Below
<1> QED BY <1>1, <1>2

LEMMA SetInduction ==
  ASSUME NEW T, 0 \in T, \A n \in Nat : n \in T => n + 1 \in T
  PROVE  Nat \subseteq T
<1> DEFINE F == {n \in Nat : n \notin T}
<1>0. SUFFICES ASSUME F # {} PROVE FALSE
  OBVIOUS
<1>1. PICK n \in F : \A m \in F : ~(m < n)
  <2>1. F \subseteq Nat
    OBVIOUS
  <2> HIDE DEF F
  <2> QED BY <1>0, <2>1, LeastNatural, Zenon
<1>2. n \in Nat \ {0}
  BY <1>1
<1>3. n - 1 \in Nat /\ n - 1 \notin F
  BY <1>1, <1>2
<1> QED BY <1>1, <1>2, <1>3

-----------------------------------------------------------------------------
(* Concatenations.                                                         *)

(* The recursive function that SequencesExt flattens a sequence with.      *)
Flattening(b, n) ==
  CHOOSE f : f = [i \in 1 .. n |-> IF i = 1 THEN b[i] ELSE f[i - 1] \o b[i]]

LEMMA FlatteningEquation ==
  ASSUME NEW b, NEW n \in Nat
  PROVE  Flattening(b, n) =
           [i \in 1 .. n |-> IF i = 1 THEN b[i] ELSE Flattening(b, n)[i - 1] \o b[i]]
<1> DEFINE Solves(f, m) == f = [i \in 1 .. m |-> IF i = 1 THEN b[i] ELSE f[i - 1] \o b[i]]
           T == {m \in Nat : \E f : Solves(f, m)}
<1>1. 0 \in T
  <2>1. Solves([i \in 1 .. 0 |-> b], 0)
    OBVIOUS
  <2> QED BY <2>1
<1>2. ASSUME NEW m \in Nat, m \in T PROVE m + 1 \in T
  <2>1. PICK f : Solves(f, m)
    BY <1>2
  <2> DEFINE g == [i \in 1 .. m + 1 |->
                     IF i = m + 1 THEN (IF m = 0 THEN b[1] ELSE f[m] \o b[m + 1]) ELSE f[i]]
  <2>2. Solves(g, m + 1)
    <3> SUFFICES ASSUME NEW i \in 1 .. m + 1
                 PROVE  g[i] = IF i = 1 THEN b[i] ELSE g[i - 1] \o b[i]
      OBVIOUS
    <3>1. CASE i = m + 1
      BY <3>1
    <3>2. CASE i # m + 1
      <4>1. i \in 1 .. m /\ g[i] = f[i] /\ (i # 1 => g[i - 1] = f[i - 1])
        BY <3>2
      <4>2. f[i] = IF i = 1 THEN b[i] ELSE f[i - 1] \o b[i]
        BY <2>1, <4>1
      <4> QED BY <4>1, <4>2
    <3> QED BY <3>1, <3>2
  <2> HIDE DEF g, Solves
  <2> QED BY <2>2
<1> HIDE DEF Solves
<1>3. n \in T
  <2> HIDE DEF T
  <2>1. Nat \subseteq T
    BY <1>1, <1>2, SetInduction
  <2> QED BY <2>1
<1> USE DEF Solves
<1> QED BY <1>3, Zenon DEF Flattening

LEMMA Concatenation ==
  ASSUME NEW S, NEW s \in Seq(S), NEW t \in Seq(S)
  PROVE  /\ s \o t \in Seq(S)
         /\ Len(s \o t) = Len(s) + Len(t)
         /\ \A i \in 1 .. Len(s) : (s \o t)[i] = s[i]
         /\ \A i \in 1 .. Len(t) : (s \o t)[Len(s) + i] = t[i]
         /\ ToSet(s \o t) = ToSet(s) \cup ToSet(t)
<1>1. /\ s \o t \in Seq(S) /\ Len(s \o t) = Len(s) + Len(t)
      /\ \A i \in 1 .. Len(s) : (s \o t)[i] = s[i]
      /\ \A i \in 1 .. Len(t) : (s \o t)[Len(s) + i] = t[i]
  OBVIOUS
<1>2. /\ DOMAIN s = 1 .. Len(s) /\ Len(s) \in Nat /\ DOMAIN t = 1 .. Len(t) /\ Len(t) \in Nat
      /\ DOMAIN (s \o t) = 1 .. Len(s) + Len(t)
  OBVIOUS
<1> DEFINE r == s \o t
<1>3. \A i \in 1 .. Len(s) : i \in DOMAIN r
  BY <1>2
<1>4. \A i \in 1 .. Len(t) : Len(s) + i \in DOMAIN r
  BY <1>2
<1>5. \A i \in DOMAIN r : i \in 1 .. Len(s) \/ (i - Len(s) \in 1 .. Len(t) /\ i = Len(s) + (i - Len(s)))
  BY <1>2
<1>6. \A i \in DOMAIN r : r[i] \in ToSet(s) \cup ToSet(t)
  <2> TAKE i \in DOMAIN r
  <2>1. CASE i \in 1 .. Len(s)
    BY <1>1, <1>2, <2>1 DEF ToSet
  <2>2. CASE i - Len(s) \in 1 .. Len(t) /\ i = Len(s) + (i - Len(s))
    <3>1. r[i] = t[i - Len(s)]
      BY <1>1, <2>2
    <3> QED BY <1>2, <2>2, <3>1 DEF ToSet
  <2> QED BY <1>5, <2>1, <2>2
<1>7. ToSet(s) \subseteq ToSet(r)
  BY <1>1, <1>2, <1>3 DEF ToSet
<1>8. ToSet(t) \subseteq ToSet(r)
  BY <1>1, <1>2, <1>4 DEF ToSet
<1>9. ToSet(r) \subseteq ToSet(s) \cup ToSet(t)
  BY <1>6 DEF ToSet
<1> QED BY <1>1, <1>7, <1>8, <1>9

(* Sequences that are closed under concatenation.                          *)
Closed(G, S) ==
  /\ G \subseteq Seq(S) /\ <<>> \in G
  /\ \A s, t \in G : s \o t \in G

LEMMA FlattenInduction ==
  ASSUME NEW S, NEW G, Closed(G, S), NEW b \in Seq(G)
  PROVE  /\ FlattenSeq(b) \in G
         /\ \A i \in DOMAIN b : ToSet(b[i]) \subseteq ToSet(FlattenSeq(b))
<1> DEFINE N == Len(b)
           f == Flattening(b, N)
           Holds(m) == f[m] \in G /\ \A i \in 1 .. m : ToSet(b[i]) \subseteq ToSet(f[m])
           T == {m \in Nat : m \in 1 .. N => Holds(m)}
<1>1. N \in Nat /\ DOMAIN b = 1 .. N /\ \A i \in 1 .. N : b[i] \in G
  OBVIOUS
<1>2. CASE N = 0
  <2>1. b = <<>>
    BY <1>2
  <2> QED BY <1>2, <2>1 DEF FlattenSeq, Closed
<1>3. CASE N # 0
  <2>1. FlattenSeq(b) = f[N]
    BY <1>3 DEF FlattenSeq, Flattening
  <2>2. \A i \in 1 .. N : f[i] = IF i = 1 THEN b[i] ELSE f[i - 1] \o b[i]
    <3> HIDE DEF N
    <3>1. f = [i \in 1 .. N |-> IF i = 1 THEN b[i] ELSE f[i - 1] \o b[i]]
      BY <1>1, FlatteningEquation
    <3> HIDE DEF f
    <3> QED BY <3>1
  <2> HIDE DEF f, N
  <2>3. ASSUME NEW m \in Nat, m \in T PROVE m + 1 \in T
    <3> SUFFICES ASSUME m + 1 \in 1 .. N PROVE Holds(m + 1)
      BY DEF T
    <3>1. CASE m = 0
      BY <1>1, <2>2, <3>1
    <3>2. CASE m # 0
      <4>0. m \in 1 .. N /\ m + 1 # 1 /\ (m + 1) - 1 = m
        BY <1>1, <3>2
      <4>1. Holds(m) /\ b[m + 1] \in G /\ f[m + 1] = f[m] \o b[m + 1]
        BY <1>1, <2>2, <2>3, <4>0
      <4>2. f[m + 1] \in G /\ f[m] \in Seq(S) /\ b[m + 1] \in Seq(S)
        BY <4>1 DEF Closed
      <4>3. ToSet(f[m]) \subseteq ToSet(f[m + 1]) /\ ToSet(b[m + 1]) \subseteq ToSet(f[m + 1])
        BY <4>1, <4>2, Concatenation
      <4>4. \A i \in 1 .. m + 1 : i \in 1 .. m \/ i = m + 1
        OBVIOUS
      <4> QED BY <4>1, <4>2, <4>3, <4>4
    <3> QED BY <3>1, <3>2
  <2>4. 0 \in T
    OBVIOUS
  <2>5. N \in T
    <3> HIDE DEF T
    <3>1. Nat \subseteq T
      BY <2>3, <2>4, SetInduction
    <3> QED BY <1>1, <3>1
  <2>6. Holds(N)
    BY <1>1, <1>3, <2>5
  <2> QED BY <1>1, <2>1, <2>6
<1> QED BY <1>2, <1>3

-----------------------------------------------------------------------------
(* What a step is made of, and what stands before and after it.            *)

PlanStep ==
  [op : {"up", "down", "tune"}, link : Links]
    \cup [op : {"address"}, link : Links, family : Families]
    \cup [op : {"create"}, link : Links, parent : Links \cup {None}, under : Links \cup {None}]
    \cup [op : {"enslave", "join", "attach"}, link : Links, master : Links]
    \cup [op : {"route"}, slot : Nat, devs : SUBSET Links, via : Families \cup {None}]
    \cup [op : {"write"}, path : Paths, profile : Profile]
    \cup [op : {"start"}, unit : Units]
    \cup [op : {"conntrack", "certbot", "load"}]

LEMMA StepFields ==
  ASSUME NEW s \in PlanStep
  PROVE  /\ s.op \in {"up", "down", "address", "tune", "create", "enslave", "join", "attach",
                      "route", "write", "start", "conntrack", "certbot", "load"}
         /\ s.op \in {"up", "down", "address", "tune", "create", "enslave", "join", "attach"} =>
              s.link \in Links
         /\ s.op = "create" => s.parent \in Links \cup {None} /\ s.under \in Links \cup {None}
         /\ s.op = "address" => s.family \in Families
         /\ s.op \in {"enslave", "join", "attach"} => s.master \in Links
         /\ s.op = "route" => s.slot \in Nat /\ s.devs \subseteq Links /\ s.via \in Families \cup {None}
         /\ s.op = "write" => s.path \in Paths /\ s.profile \in Profile
         /\ s.op = "start" => s.unit \in Units
  BY DEF PlanStep

(* Interfaces that are taken down, the links that steps of E make, on no   *)
(* other one or at all, and set up, and the addresses they give them; and  *)
(* whether a link has an address then, for a gateway.                      *)
Spare(c) == {i.name : i \in {j \in ToSet(c.interfaces) : ~j.enabled}}
CreatedBy(E) == {s.link : s \in {t \in E : t.op = "create"}}
RisenBy(E) == {s.link : s \in {t \in E : t.op \in {"up", "enslave", "join"}}}
AddressedBy(E) == {<<s.link, s.family>> : s \in {t \in E : t.op = "address"}}
Freestanding(E) == {s.link : s \in {t \in E : t.op = "create" /\ t.parent = None}}
Usable(c, E) == (Physical \ Spare(c)) \cup ServiceLinks(c) \cup CreatedBy(E)
Reaches(c, E, d, family) ==
  \/ d \in ServiceLinks(c) /\ family = "v4"
  \/ <<d, family>> \in AddressedBy(E) /\ d \in Physical \cup CreatedBy(E)

(* The place of a step between the steps E before it and L after it: a     *)
(* profile is read by a unit that starts later; and what a step of a       *)
(* configuration the order serves needs is there, up and addressed by      *)
(* then, or a service brings it; a tunnel runs over a physical link.       *)
Fits(c, E, s, L) ==
  /\ s.op = "write" =>
       /\ s.profile.dev \in ServiceLinks(c) \cup {None}
       /\ \E t \in L : t.op = "start" /\ t.unit = UnitOf[s.path]
  /\ s.op = "down" => s.link \in Spare(c)
  /\ c \in ServedConfigs /\ Valid(c) =>
       /\ s.op # "down" => Needs(s) \subseteq Usable(c, E)
       /\ s.op \in {"enslave", "join", "attach"} => s.master \in CreatedBy(E)
       /\ s.op \in {"enslave", "join"} => s.link \in Ethernet
       /\ s.op = "create" => s.under \in Physical \cup {None}
       /\ s.op = "create" /\ s.parent # None =>
            s.parent \in RisenBy(E) \cap (Physical \cup CreatedBy(E))
       /\ s.op = "route" =>
            /\ s.devs \subseteq ServiceLinks(c) \cup RisenBy(E)
            /\ s.devs \subseteq ServiceLinks(c) \cup Physical \cup Freestanding(E)
            /\ s.via # None => \A d \in s.devs : Reaches(c, E, d, s.via)

Before(s, i) == {s[j] : j \in 1 .. i - 1}
After(s, i) == {s[j] : j \in i + 1 .. Len(s)}
Arranged(c, E, L) ==
  {s \in Seq(PlanStep) :
     \A i \in 1 .. Len(s) : Fits(c, E \cup Before(s, i), s[i], L \cup After(s, i))}

LEMMA FitsMore ==
  ASSUME NEW c, NEW s, NEW E, NEW F, E \subseteq F, NEW L, NEW M, L \subseteq M,
         Fits(c, E, s, L)
  PROVE  Fits(c, F, s, M)
<1>1. CreatedBy(E) \subseteq CreatedBy(F) /\ RisenBy(E) \subseteq RisenBy(F)
      /\ AddressedBy(E) \subseteq AddressedBy(F) /\ Freestanding(E) \subseteq Freestanding(F)
  BY DEF CreatedBy, RisenBy, AddressedBy, Freestanding
<1>2. Usable(c, E) \subseteq Usable(c, F)
  BY <1>1 DEF Usable
<1>3. \A d, family : Reaches(c, E, d, family) => Reaches(c, F, d, family)
  BY <1>1 DEF Reaches
<1> QED BY <1>1, <1>2, <1>3 DEF Fits

LEMMA ArrangedMore ==
  ASSUME NEW c, NEW E, NEW F, E \subseteq F, NEW L, NEW M, L \subseteq M
  PROVE  Arranged(c, E, L) \subseteq Arranged(c, F, M)
<1> SUFFICES ASSUME NEW s \in Arranged(c, E, L), NEW i \in 1 .. Len(s)
             PROVE  Fits(c, F \cup Before(s, i), s[i], M \cup After(s, i))
  BY DEF Arranged
<1>1. Fits(c, E \cup Before(s, i), s[i], L \cup After(s, i))
  BY DEF Arranged
<1>2. E \cup Before(s, i) \subseteq F \cup Before(s, i)
      /\ L \cup After(s, i) \subseteq M \cup After(s, i)
  OBVIOUS
<1> QED BY <1>1, <1>2, FitsMore

LEMMA ArrangedConcat ==
  ASSUME NEW c, NEW E, NEW L, NEW s \in Seq(PlanStep), NEW t \in Seq(PlanStep),
         s \in Arranged(c, E, L \cup ToSet(t)), t \in Arranged(c, E \cup ToSet(s), L)
  PROVE  s \o t \in Arranged(c, E, L)
<1> DEFINE r == s \o t
<1>1. /\ r \in Seq(PlanStep)
      /\ Len(r) = Len(s) + Len(t)
      /\ \A i \in 1 .. Len(s) : r[i] = s[i]
      /\ \A i \in 1 .. Len(t) : r[Len(s) + i] = t[i]
  BY Concatenation
<1>2. Len(s) \in Nat /\ Len(t) \in Nat /\ DOMAIN s = 1 .. Len(s) /\ DOMAIN t = 1 .. Len(t)
  OBVIOUS
<1> HIDE DEF r
<1> SUFFICES ASSUME NEW i \in 1 .. Len(r)
             PROVE  Fits(c, E \cup Before(r, i), r[i], L \cup After(r, i))
  BY <1>1 DEF Arranged, r
<1>3. CASE i \in 1 .. Len(s)
  <2>1. Before(s, i) \subseteq Before(r, i)
    BY <1>1, <1>2, <1>3 DEF Before
  <2>2. After(s, i) \subseteq After(r, i)
    <3>1. \A j \in i + 1 .. Len(s) : j \in i + 1 .. Len(r) /\ r[j] = s[j]
      BY <1>1, <1>2, <1>3
    <3> QED BY <3>1 DEF After
  <2>3. ToSet(t) \subseteq After(r, i)
    <3>1. \A j \in 1 .. Len(t) : Len(s) + j \in i + 1 .. Len(r) /\ r[Len(s) + j] = t[j]
      BY <1>1, <1>2, <1>3
    <3> QED BY <1>2, <3>1 DEF After, ToSet
  <2>4. Fits(c, E \cup Before(s, i), s[i], (L \cup ToSet(t)) \cup After(s, i)) /\ r[i] = s[i]
    BY <1>1, <1>3 DEF Arranged
  <2>5. E \cup Before(s, i) \subseteq E \cup Before(r, i)
        /\ (L \cup ToSet(t)) \cup After(s, i) \subseteq L \cup After(r, i)
    BY <2>1, <2>2, <2>3
  <2> QED BY <2>4, <2>5, FitsMore
<1>4. CASE i \notin 1 .. Len(s)
  <2> DEFINE k == i - Len(s)
  <2>0. k \in 1 .. Len(t) /\ r[i] = t[k] /\ i = Len(s) + k
    <3>1. k \in 1 .. Len(t) /\ i = Len(s) + k
      BY <1>1, <1>2, <1>4
    <3> QED BY <1>1, <3>1
  <2> HIDE DEF k
  <2>1. ToSet(s) \subseteq Before(r, i)
    <3>1. \A j \in 1 .. Len(s) : j \in 1 .. i - 1 /\ r[j] = s[j]
      BY <1>1, <1>2, <2>0
    <3> QED BY <1>2, <3>1 DEF Before, ToSet
  <2>2. Before(t, k) \subseteq Before(r, i)
    <3>1. \A j \in 1 .. k - 1 : Len(s) + j \in 1 .. i - 1 /\ j \in 1 .. Len(t)
      BY <1>1, <1>2, <2>0
    <3>2. \A j \in 1 .. k - 1 : r[Len(s) + j] = t[j]
      BY <1>1, <3>1
    <3> QED BY <3>1, <3>2 DEF Before
  <2>3. After(t, k) \subseteq After(r, i)
    <3>1. \A j \in k + 1 .. Len(t) : Len(s) + j \in i + 1 .. Len(r) /\ j \in 1 .. Len(t)
      BY <1>1, <1>2, <2>0
    <3>2. \A j \in k + 1 .. Len(t) : r[Len(s) + j] = t[j]
      BY <1>1, <3>1
    <3> QED BY <3>1, <3>2 DEF After
  <2>4. Fits(c, (E \cup ToSet(s)) \cup Before(t, k), t[k], L \cup After(t, k))
    BY <2>0 DEF Arranged
  <2>5. (E \cup ToSet(s)) \cup Before(t, k) \subseteq E \cup Before(r, i)
        /\ L \cup After(t, k) \subseteq L \cup After(r, i)
    BY <2>1, <2>2, <2>3
  <2> QED BY <2>0, <2>4, <2>5, FitsMore
<1> QED BY <1>3, <1>4

LEMMA ArrangedClosed ==
  ASSUME NEW c, NEW E, NEW L
  PROVE  Closed(Arranged(c, E, L), PlanStep)
<1>1. Arranged(c, E, L) \subseteq Seq(PlanStep) /\ <<>> \in Arranged(c, E, L)
  BY DEF Arranged
<1>2. ASSUME NEW s \in Arranged(c, E, L), NEW t \in Arranged(c, E, L)
      PROVE  s \o t \in Arranged(c, E, L)
  <2>1. s \in Seq(PlanStep) /\ t \in Seq(PlanStep)
    BY <1>1
  <2>2. s \in Arranged(c, E, L \cup ToSet(t)) /\ t \in Arranged(c, E \cup ToSet(s), L)
    BY ArrangedMore
  <2> QED BY <2>1, <2>2, ArrangedConcat
<1> QED BY <1>1, <1>2 DEF Closed

(* A part of a plan after the steps E, and the steps after which the next  *)
(* part comes.                                                             *)
Part(c, E) == Arranged(c, E, {})
Then(E, s) == E \cup ToSet(s)

LEMMA SingleStep ==
  ASSUME NEW c, NEW E, NEW L, NEW s, s \in PlanStep, Fits(c, E, s, L)
  PROVE  <<s>> \in Arranged(c, E, L) /\ ToSet(<<s>>) = {s}
<1>1. <<s>> \in Seq(PlanStep) /\ Len(<<s>>) = 1 /\ <<s>>[1] = s /\ DOMAIN <<s>> = {1}
  OBVIOUS
<1>2. \A i \in 1 .. 1 : i = 1
  OBVIOUS
<1>3. Fits(c, E \cup Before(<<s>>, 1), s, L \cup After(<<s>>, 1))
  BY FitsMore
<1> QED BY <1>1, <1>2, <1>3 DEF Arranged, ToSet

LEMMA OneStep ==
  ASSUME NEW c, NEW E, NEW s, s \in PlanStep, Fits(c, E, s, {})
  PROVE  <<s>> \in Part(c, E) /\ s \in Then(E, <<s>>)
  BY SingleStep DEF Part, Then

LEMMA TwoSteps ==
  ASSUME NEW c, NEW E, NEW s, NEW t, s \in PlanStep, t \in PlanStep,
         Fits(c, E, s, {}), Fits(c, E \cup {s}, t, {})
  PROVE  /\ <<s, t>> \in Part(c, E)
         /\ s \in Then(E, <<s, t>>) /\ t \in Then(E, <<s, t>>)
<1> DEFINE r == <<s, t>>
<1>1. r \in Seq(PlanStep) /\ Len(r) = 2 /\ r[1] = s /\ r[2] = t /\ DOMAIN r = {1, 2}
  OBVIOUS
<1>2. \A i \in 1 .. 2 : i = 1 \/ i = 2
  OBVIOUS
<1>3. Fits(c, E \cup Before(r, 1), s, {} \cup After(r, 1))
  BY FitsMore
<1>4. s \in Before(r, 2)
  BY <1>1 DEF Before
<1>5. E \cup {s} \subseteq E \cup Before(r, 2) /\ {} \subseteq {} \cup After(r, 2)
  BY <1>4
<1> HIDE DEF r
<1>6. Fits(c, E \cup Before(r, 2), t, {} \cup After(r, 2))
  BY <1>5, FitsMore
<1>7. s \in ToSet(r) /\ t \in ToSet(r)
  BY <1>1 DEF ToSet
<1>8. r \in Part(c, E)
  BY <1>1, <1>2, <1>3, <1>6 DEF Arranged, Part
<1> QED BY <1>7, <1>8 DEF Then, r

(* A step that depends on a condition.                                     *)
LEMMA GivenStep ==
  ASSUME NEW c, NEW E, NEW s, NEW b \in BOOLEAN, b => s \in PlanStep, b => Fits(c, E, s, {})
  PROVE  /\ Given(b, <<s>>) \in Part(c, E)
         /\ b => s \in Then(E, Given(b, <<s>>))
<1>1. CASE b
  BY <1>1, OneStep DEF Given
<1>2. CASE ~b
  BY <1>2, ArrangedClosed DEF Given, Closed, Part
<1> QED BY <1>1, <1>2

LEMMA GivenPart ==
  ASSUME NEW c, NEW E, NEW s, NEW b \in BOOLEAN, s \in Part(c, E)
  PROVE  Given(b, s) \in Part(c, E) /\ (b => Then(E, Given(b, s)) = Then(E, s))
<1>1. CASE b
  BY <1>1 DEF Given
<1>2. CASE ~b
  BY <1>2, ArrangedClosed DEF Given, Closed, Part
<1> QED BY <1>1, <1>2

(* A profile is written, then the unit that reads it is started.           *)
LEMMA WrittenThenStarted ==
  ASSUME NEW c, NEW E, NEW s, NEW t, s \in Arranged(c, E, ToSet(t)), t \in Part(c, Then(E, s))
  PROVE  /\ s \o t \in Part(c, E)
         /\ Then(E, s \o t) = Then(Then(E, s), t)
<1>1. s \in Seq(PlanStep) /\ t \in Seq(PlanStep)
  BY DEF Arranged, Part
<1>2. s \in Arranged(c, E, {} \cup ToSet(t)) /\ t \in Arranged(c, E \cup ToSet(s), {})
  BY ArrangedMore DEF Part, Then
<1>3. s \o t \in Arranged(c, E, {})
  BY <1>1, <1>2, ArrangedConcat
<1>4. ToSet(s \o t) = ToSet(s) \cup ToSet(t)
  BY <1>1, Concatenation
<1> QED BY <1>3, <1>4 DEF Part, Then

LEMMA Appended ==
  ASSUME NEW c, NEW E, NEW s, NEW t, s \in Part(c, E), t \in Part(c, Then(E, s))
  PROVE  /\ s \o t \in Part(c, E)
         /\ Then(E, s \o t) = Then(Then(E, s), t)
<1>1. s \in Arranged(c, E, ToSet(t))
  BY ArrangedMore DEF Part
<1> QED BY <1>1, WrittenThenStarted

LEMMA ThenMore ==
  ASSUME NEW E, NEW s
  PROVE  E \subseteq Then(E, s) /\ ToSet(s) \subseteq Then(E, s)
  BY DEF Then

-----------------------------------------------------------------------------
(* The parts of a plan.                                                    *)

LEMMA StepTypes ==
  /\ \A op \in {"up", "down", "tune"}, l \in Links : Simple(op, l) \in PlanStep
  /\ \A l \in Links, f \in Families : Address(l, f) \in PlanStep
  /\ \A l \in Links, p, u \in Links \cup {None} : Create(l, p, u) \in PlanStep
  /\ \A op \in {"enslave", "join", "attach"}, l, m \in Links : Under(op, l, m) \in PlanStep
  /\ \A slot \in Nat, devs \in SUBSET Links, via \in Families \cup {None} :
       InstallRoute([slot |-> slot, devs |-> devs, via |-> via]) \in PlanStep
  /\ \A p \in Paths, dev \in Links \cup {None}, version \in Nat : Write(p, dev, version) \in PlanStep
  /\ \A u \in Units : Start(u) \in PlanStep
  /\ \A op \in {"conntrack", "certbot", "load"} : Only(op) \in PlanStep
  BY DEF PlanStep, Simple, Address, Create, Under, InstallRoute, Write, Start, Only, Profile

LEMMA Members ==
  ASSUME NEW S, NEW list \in Seq(S)
  PROVE  /\ ToSet(list) \subseteq S
         /\ \A i \in DOMAIN list : list[i] \in ToSet(list) /\ list[i] \in S
         /\ DOMAIN list = 1 .. Len(list) /\ Len(list) \in Nat
  BY DEF ToSet

LEMMA ConfigLists ==
  ASSUME NEW c \in Configs
  PROVE  /\ c.conntrack \in BOOLEAN
         /\ c.interfaces \in Seq(Interface) /\ c.acme \in Seq(Service)
         /\ c.tunnels \in Seq(Tunnel) /\ c.routes \in Seq(Route)
         /\ c.services \in Seq(Service) /\ c.mpls \in Seq(Links)
         /\ c.bonds \in Seq(Master) /\ c.bridges \in Seq(Master) /\ c.vlans \in Seq(Vlan)
         /\ c.vrrp \in Seq(Service) /\ c.vrfs \in Seq(Master) /\ c.frr \in Seq(Service)
         /\ c.queues \in Seq(Links) /\ c.jobs \in Seq(Service) /\ c.guards \in Seq(Service)
<1>1. c \in Config
  BY ConfigAssumption
<1> QED BY <1>1 DEF Config

(* What the steps before a part have done with ports, tunnels, bonds,      *)
(* bridges and VLANs.                                                      *)
Ported(c, E) ==
  \A i \in Ports(c) :
    Simple("up", i.name) \in E /\ \A f \in ToSet(i.addresses) : Address(i.name, f) \in E
Tunnelled(c, E) ==
  \A t \in OwnTunnels(c) :
    t.dev # None =>
      /\ Create(t.dev, None, t.under) \in E /\ Simple("up", t.dev) \in E
      /\ \A f \in ToSet(t.addresses) : Address(t.dev, f) \in E
Mastered(list, E) ==
  \A m \in ToSet(list) : Create(m.name, None, None) \in E /\ Simple("up", m.name) \in E
Tagged(c, E) == \A v \in ToSet(c.vlans) : Create(v.name, v.parent, None) \in E

LEMMA MoreDone ==
  ASSUME NEW c, NEW list, NEW E, NEW F, E \subseteq F
  PROVE  /\ Ported(c, E) => Ported(c, F)
         /\ Tunnelled(c, E) => Tunnelled(c, F)
         /\ Mastered(list, E) => Mastered(list, F)
         /\ Tagged(c, E) => Tagged(c, F)
  BY DEF Ported, Tunnelled, Mastered, Tagged

LEMMA StepMakes ==
  ASSUME NEW E, NEW l
  PROVE  /\ Simple("up", l) \in E => l \in RisenBy(E)
         /\ \A f : Address(l, f) \in E => <<l, f>> \in AddressedBy(E)
         /\ \A p, u : Create(l, p, u) \in E => l \in CreatedBy(E)
         /\ \A u : Create(l, None, u) \in E => l \in Freestanding(E)
<1>1. Simple("up", l).op = "up" /\ Simple("up", l).link = l
  BY DEF Simple
<1>2. \A p, u : Create(l, p, u).op = "create" /\ Create(l, p, u).link = l /\ Create(l, p, u).parent = p
  BY DEF Create
<1>3. Simple("up", l) \in E => l \in RisenBy(E)
  BY <1>1 DEF RisenBy
<1>4. ASSUME NEW f, Address(l, f) \in E PROVE <<l, f>> \in AddressedBy(E)
  <2>1. Address(l, f).op = "address" /\ Address(l, f).link = l /\ Address(l, f).family = f
    BY DEF Address
  <2> QED BY <1>4, <2>1 DEF AddressedBy
<1>5. ASSUME NEW p, NEW u, Create(l, p, u) \in E PROVE l \in CreatedBy(E)
  BY <1>2, <1>5 DEF CreatedBy
<1>6. ASSUME NEW u, Create(l, None, u) \in E PROVE l \in Freestanding(E)
  BY <1>2, <1>6 DEF Freestanding
<1> QED BY <1>3, <1>4, <1>5, <1>6

LEMMA ServedFacts ==
  ASSUME NEW c \in ServedConfigs
  PROVE  c \in Configs /\ Served(c) /\ Alike
  BY DEF ServedConfigs

(* A port has one name, so nothing takes it down.                          *)
LEMMA PortsStay ==
  ASSUME NEW c \in ServedConfigs, Valid(c), NEW i \in Ports(c)
  PROVE  i.name \in Physical \ Spare(c)
<1>1. c \in Configs /\ Served(c)
  BY ServedFacts
<1>2. c.interfaces \in Seq(Interface)
  BY <1>1, ConfigLists
<1>3. PICK k \in DOMAIN c.interfaces : c.interfaces[k] = i
  BY DEF Ports, ToSet
<1>4. i.name \in Physical
  BY <1>1, <1>3 DEF Served, Names, Elements, NameOf
<1>5. ASSUME NEW j \in ToSet(c.interfaces), ~j.enabled, j.name = i.name
      PROVE  FALSE
  <2>1. PICK m \in DOMAIN c.interfaces : c.interfaces[m] = j
    BY DEF ToSet
  <2>2. m = k
    BY <1>3, <1>5, <2>1 DEF Valid
  <2> QED BY <1>3, <1>5, <2>1, <2>2 DEF Ports
<1> QED BY <1>4, <1>5 DEF Spare

LEMMA EarlyLinks ==
  ASSUME NEW c \in ServedConfigs, Valid(c), NEW E, Ported(c, E), Tunnelled(c, E)
  PROVE  /\ \A l \in Links \cap Early(c) :
              /\ l \in Usable(c, E)
              /\ l \in ServiceLinks(c) \cup RisenBy(E)
              /\ l \in ServiceLinks(c) \cup Physical \cup Freestanding(E)
         /\ \A l \in Links \cap Own(c) : l \in RisenBy(E) \cap (Physical \cup CreatedBy(E))
         /\ \A l \in Links, f \in Families : <<l, f>> \in Addressed(c) => Reaches(c, E, l, f)
<1>1. ASSUME NEW i \in Ports(c)
      PROVE  /\ i.name \in Physical \ Spare(c) /\ i.name \in RisenBy(E)
             /\ \A f \in ToSet(i.addresses) : <<i.name, f>> \in AddressedBy(E)
  BY PortsStay, StepMakes DEF Ported
<1>2. ASSUME NEW t \in OwnTunnels(c), t.dev \in Links
      PROVE  /\ t.dev \in RisenBy(E) /\ t.dev \in CreatedBy(E) /\ t.dev \in Freestanding(E)
             /\ \A f \in ToSet(t.addresses) : <<t.dev, f>> \in AddressedBy(E)
  <2>1. t.dev # None
    BY <1>2, NameAssumption
  <2> QED BY <2>1, StepMakes DEF Tunnelled
<1>3. ASSUME NEW l \in Links \cap Own(c)
      PROVE  /\ l \in RisenBy(E) \cap (Physical \cup CreatedBy(E)) /\ l \in Usable(c, E)
             /\ l \in Physical \cup Freestanding(E)
  BY <1>1, <1>2, <1>3 DEF Own, Usable
<1>4. ASSUME NEW l \in Links, NEW f \in Families, <<l, f>> \in Addressed(c)
      PROVE  Reaches(c, E, l, f)
  <2> DEFINE A(i) == {i.name} \X ToSet(i.addresses)
             B(t) == {t.dev} \X ToSet(t.addresses)
             S == ServiceLinks(c) \X {"v4"}
             a == <<l, f>>
  <2>1. ASSUME NEW i \in Ports(c), a \in A(i) PROVE Reaches(c, E, l, f)
    BY <1>1, <2>1 DEF Reaches
  <2>2. ASSUME NEW t \in OwnTunnels(c), a \in B(t) PROVE Reaches(c, E, l, f)
    BY <1>2, <2>2 DEF Reaches
  <2>3. a \in S => Reaches(c, E, l, f)
    BY DEF Reaches
  <2>4. a \in (UNION {A(i) : i \in Ports(c)}) \cup (UNION {B(t) : t \in OwnTunnels(c)}) \cup S
    BY <1>4 DEF Addressed
  <2> HIDE DEF A, B, S, a
  <2>5. (\E i \in Ports(c) : a \in A(i)) \/ (\E t \in OwnTunnels(c) : a \in B(t)) \/ a \in S
    BY <2>4, Zenon
  <2> QED BY <2>1, <2>2, <2>3, <2>5
<1> QED BY <1>3, <1>4 DEF Early, Usable

(* A link that is there gets its addresses.                                *)
LEMMA AddressesPart ==
  ASSUME NEW c, NEW E, NEW l \in Links, NEW list \in Seq(Families),
         c \in ServedConfigs /\ Valid(c) => l \in Usable(c, E)
  PROVE  /\ AddressSteps(l, list) \in Part(c, E)
         /\ \A f \in ToSet(list) : Address(l, f) \in Then(E, AddressSteps(l, list))
<1> DEFINE s == AddressSteps(l, list)
<1>1. DOMAIN list = 1 .. Len(list) /\ Len(list) \in Nat /\ \A i \in DOMAIN list : list[i] \in Families
  BY Members
<1>2. \A i \in DOMAIN list : Address(l, list[i]) \in PlanStep
  BY <1>1, StepTypes
<1>3. s \in Seq(PlanStep) /\ Len(s) = Len(list) /\ DOMAIN s = DOMAIN list
      /\ \A i \in 1 .. Len(s) : i \in DOMAIN list /\ s[i] = Address(l, list[i])
  BY <1>1, <1>2 DEF AddressSteps
<1>4. ASSUME NEW f PROVE Fits(c, E, Address(l, f), {})
  BY DEF Fits, Address, Needs
<1> HIDE DEF s
<1>5. \A i \in 1 .. Len(s) : Fits(c, E \cup Before(s, i), s[i], {} \cup After(s, i))
  BY <1>3, <1>4, FitsMore
<1>6. s \in Part(c, E)
  BY <1>3, <1>5 DEF Part, Arranged
<1>7. \A f \in ToSet(list) : Address(l, f) \in ToSet(s)
  BY <1>1, <1>3 DEF ToSet
<1> QED BY <1>6, <1>7, ThenMore DEF s

LEMMA UpPart ==
  ASSUME NEW c, NEW E, NEW l \in Links, NEW list \in Seq(Families),
         c \in ServedConfigs /\ Valid(c) => l \in Usable(c, E)
  PROVE  LET s == <<Simple("up", l)>> \o AddressSteps(l, list) IN
           /\ s \in Part(c, E)
           /\ Simple("up", l) \in Then(E, s)
           /\ \A f \in ToSet(list) : Address(l, f) \in Then(E, s)
<1> DEFINE up == Simple("up", l)
           A == <<up>>
           B == AddressSteps(l, list)
           F == Then(E, A)
<1>1. Fits(c, E, up, {})
  BY DEF Fits, Simple, Needs
<1>2. up \in PlanStep
  BY StepTypes
<1> HIDE DEF up
<1>3. A \in Part(c, E) /\ up \in F
  BY <1>1, <1>2, OneStep
<1>4. Usable(c, E) \subseteq Usable(c, F)
  BY ThenMore DEF Usable, CreatedBy
<1> HIDE DEF A, F
<1>5. B \in Part(c, F) /\ \A f \in ToSet(list) : Address(l, f) \in Then(F, B)
  BY <1>4, AddressesPart
<1>6. up \in Then(F, B)
  BY <1>3, ThenMore
<1> HIDE DEF B
<1>7. A \o B \in Part(c, E) /\ Then(E, A \o B) = Then(F, B)
  BY <1>3, <1>5, Appended DEF F
<1> QED BY <1>5, <1>6, <1>7 DEF A, B, up

LEMMA InterfacePart ==
  ASSUME NEW c \in Configs, NEW i \in ToSet(c.interfaces), NEW E
  PROVE  /\ InterfaceSteps(i) \in Part(c, E)
         /\ i.enabled =>
              /\ Simple("up", i.name) \in Then(E, InterfaceSteps(i))
              /\ \A f \in ToSet(i.addresses) : Address(i.name, f) \in Then(E, InterfaceSteps(i))
<1>1. i \in Interface
  BY ConfigLists, Members
<1>2. i.name \in Links /\ i.enabled \in BOOLEAN /\ i.addresses \in Seq(Families)
      /\ i.gateway \in Families \cup {None}
  BY <1>1 DEF Interface
<1>3. CASE ~i.enabled
  <2>1. Fits(c, E, Simple("down", i.name), {})
    BY <1>3 DEF Fits, Simple, Spare
  <2>2. Simple("down", i.name) \in PlanStep
    BY <1>2, StepTypes
  <2> QED BY <1>3, <2>1, <2>2, OneStep DEF InterfaceSteps
<1>4. CASE i.enabled
  <2> DEFINE B == <<Simple("up", i.name)>> \o AddressSteps(i.name, i.addresses)
             route == InstallRoute([slot |-> MainSlot(i.gateway), devs |-> {i.name}, via |-> i.gateway])
             C == Given(i.gateway # None, <<route>>)
             G == Then(E, B)
  <2>1. c \in ServedConfigs /\ Valid(c) =>
          i.name \in Physical \ Spare(c) /\ i.gateway \in ToSet(i.addresses) \cup {None}
    BY <1>4, PortsStay, ServedFacts DEF Ports, Served
  <2>2. c \in ServedConfigs /\ Valid(c) => i.name \in Usable(c, E)
    BY <2>1 DEF Usable
  <2>3. B \in Part(c, E) /\ Simple("up", i.name) \in G
        /\ \A f \in ToSet(i.addresses) : Address(i.name, f) \in G
    BY <1>2, <2>2, UpPart
  <2>4. route \in PlanStep
    <3>1. MainSlot(i.gateway) \in Nat
      BY DEF MainSlot
    <3> QED BY <1>2, <3>1, StepTypes
  <2> HIDE DEF G, B
  <2>5. Fits(c, G, route, {})
    <3>1. route.op = "route" /\ route.devs = {i.name} /\ Needs(route) = {i.name} /\ route.via = i.gateway
      BY DEF InstallRoute, Needs
    <3>2. i.name \in RisenBy(G) /\ \A f \in ToSet(i.addresses) : <<i.name, f>> \in AddressedBy(G)
      BY <2>3, StepMakes
    <3> HIDE DEF route
    <3>3. c \in ServedConfigs /\ Valid(c) /\ i.gateway # None => Reaches(c, G, i.name, i.gateway)
      BY <2>1, <3>2 DEF Reaches
    <3> QED BY <2>1, <3>1, <3>2, <3>3 DEF Fits, Usable
  <2> HIDE DEF route
  <2>6. C \in Part(c, G)
    <3>1. (i.gateway # None) \in BOOLEAN
      OBVIOUS
    <3> QED BY <2>4, <2>5, <3>1, GivenStep
  <2> HIDE DEF C
  <2>7. B \o C \in Part(c, E) /\ Then(E, B \o C) = Then(G, C)
    BY <2>3, <2>6, Appended DEF G
  <2>8. InterfaceSteps(i) = B \o C
    BY <1>4 DEF InterfaceSteps, B, C, route
  <2> QED BY <1>4, <2>3, <2>7, <2>8, ThenMore
<1> QED BY <1>2, <1>3, <1>4

LEMMA ReadByUnit ==
  ASSUME NEW c \in Configs, NEW s,
         \/ s \in ToSet(c.acme) \/ s \in ToSet(c.tunnels) \/ s \in ToSet(c.services)
         \/ s \in ToSet(c.vrrp) \/ s \in ToSet(c.frr) \/ s \in ToSet(c.jobs)
         \/ s \in ToSet(c.guards)
  PROVE  s.path # None => UnitOf[s.path] = s.unit
  BY ProfileAssumption

LEMMA StartFits ==
  ASSUME NEW c, NEW E, NEW L
  PROVE  /\ \A u : Fits(c, E, Start(u), L)
         /\ \A op \in {"conntrack", "certbot", "load"} : Fits(c, E, Only(op), L)
  BY DEF Fits, Start, Only, Needs

LEMMA WritePart ==
  ASSUME NEW c, NEW E, NEW path, NEW dev, NEW version, NEW unit, NEW L,
         path # None => Write(path, dev, version) \in PlanStep,
         path # None => UnitOf[path] = unit, Start(unit) \in L, dev \in ServiceLinks(c) \cup {None}
  PROVE  Given(path # None, <<Write(path, dev, version)>>) \in Arranged(c, E, L)
<1>1. Start(unit).op = "start" /\ Start(unit).unit = unit
  BY DEF Start
<1>2. path # None => Fits(c, E, Write(path, dev, version), L)
  BY <1>1 DEF Fits, Write, Needs
<1>3. CASE path # None
  BY <1>2, <1>3, SingleStep DEF Given
<1>4. CASE path = None
  BY <1>4, ArrangedClosed DEF Given, Closed
<1> QED BY <1>3, <1>4

LEMMA AcmePart ==
  ASSUME NEW c \in Configs, NEW s \in ToSet(c.acme), NEW E
  PROVE  AcmeSteps(s) \in Part(c, E)
<1>1. s \in Service
  BY ConfigLists, Members
<1>2. s.unit \in Units /\ s.path \in Paths \cup {None} /\ s.version \in Nat
  BY <1>1 DEF Service
<1> DEFINE A == Given(s.path # None, <<Write(s.path, None, s.version)>>)
           B == <<Only("certbot"), Start(s.unit)>>
<1>3. B \in Part(c, Then(E, A))
  BY <1>2, StepTypes, StartFits, TwoSteps
<1>4. Start(s.unit) \in ToSet(B)
  BY DEF ToSet
<1>5. s.path # None => Write(s.path, None, s.version) \in PlanStep
  BY <1>2, StepTypes
<1> HIDE DEF B
<1>6. A \in Arranged(c, E, ToSet(B))
  BY <1>4, <1>5, WritePart, ReadByUnit
<1> HIDE DEF A
<1>7. A \o B \in Part(c, E)
  BY <1>3, <1>6, WrittenThenStarted
<1> QED BY <1>7 DEF AcmeSteps, A, B

LEMMA ServicePart ==
  ASSUME NEW c \in Configs, NEW s \in Service, s.path # None => UnitOf[s.path] = s.unit, NEW E
  PROVE  ServiceSteps(s) \in Part(c, E)
<1>1. s.unit \in Units /\ s.path \in Paths \cup {None} /\ s.version \in Nat
  BY DEF Service
<1> DEFINE A == Profiles(s)
           B == <<Start(s.unit)>>
<1>2. B \in Part(c, Then(E, A))
  BY <1>1, StepTypes, StartFits, OneStep
<1>3. Start(s.unit) \in ToSet(B)
  BY DEF ToSet
<1>4. s.path # None => Write(s.path, None, s.version) \in PlanStep
  BY <1>1, StepTypes
<1> HIDE DEF B
<1>5. A \in Arranged(c, E, ToSet(B))
  BY <1>3, <1>4, WritePart DEF Profiles
<1> HIDE DEF A
<1>6. A \o B \in Part(c, E)
  BY <1>2, <1>5, WrittenThenStarted
<1> QED BY <1>6 DEF ServiceSteps, A, B

LEMMA TunnelPart ==
  ASSUME NEW c \in Configs, NEW t \in ToSet(c.tunnels), NEW E
  PROVE  /\ TunnelSteps(t) \in Part(c, E)
         /\ t \in OwnTunnels(c) /\ t.dev # None =>
              /\ Create(t.dev, None, t.under) \in Then(E, TunnelSteps(t))
              /\ Simple("up", t.dev) \in Then(E, TunnelSteps(t))
              /\ \A f \in ToSet(t.addresses) : Address(t.dev, f) \in Then(E, TunnelSteps(t))
<1>1. t \in Tunnel
  BY ConfigLists, Members
<1>2. /\ t.enabled \in BOOLEAN /\ t.creates \in BOOLEAN /\ t.managed \in BOOLEAN
      /\ t.dev \in Links \cup {None} /\ t.under \in Links \cup {None}
      /\ t.unit \in Units \cup {None}
      /\ t.path \in Paths \cup {None} /\ t.version \in Nat /\ t.table \in Nat
      /\ t.addresses \in Seq(Families)
      /\ t.creates => ~t.managed /\ t.unit = None
      /\ t.path # None => t.unit # None
  BY <1>1 DEF Tunnel
<1>3. CASE ~t.enabled \/ t.dev = None
  BY <1>3, ArrangedClosed DEF TunnelSteps, Part, Closed, OwnTunnels
<1>4. CASE t.enabled /\ t.dev # None
  <2> DEFINE create == Create(t.dev, None, t.under)
             route == InstallRoute([slot |-> TableSlot(t.table), devs |-> {t.dev}, via |-> None])
             A == Given(t.creates, <<create>>)
             B == Given(t.path # None, <<Write(t.path, t.dev, t.version)>>)
             C == Given(t.unit # None, <<Start(t.unit)>>)
             U == <<Simple("up", t.dev)>> \o AddressSteps(t.dev, t.addresses)
             D == Given(~t.managed, U)
             R == Given(t.table > 0, <<route>>)
             E1 == Then(E, A)
             E2 == Then(E1, B)
             E3 == Then(E2, C)
             E4 == Then(E3, D)
  <2>1. ~t.creates => t.dev \in ServiceLinks(c)
    BY <1>4 DEF ServiceLinks
  <2>2. /\ t.dev \in Links /\ create \in PlanStep
        /\ (t.unit # None => Start(t.unit) \in PlanStep)
        /\ (t.path # None => Write(t.path, t.dev, t.version) \in PlanStep)
    BY <1>2, <1>4, StepTypes
  <2>3. t.creates => Fits(c, E, create, {})
    <3> SUFFICES ASSUME t.creates PROVE Fits(c, E, create, {})
      OBVIOUS
    <3>1. create.op = "create" /\ create.parent = None /\ create.under = t.under
          /\ Needs(create) = {t.under} \ {None}
      BY DEF Create, Needs
    <3>2. ASSUME c \in ServedConfigs, Valid(c), t.under # None
          PROVE  t.under \in Physical \ Spare(c)
      <4>1. t \in OwnTunnels(c)
        BY <1>4 DEF OwnTunnels
      <4>2. t.under \in {i.name : i \in Ports(c)}
        BY <3>2, <4>1, ServedFacts DEF Served
      <4> QED BY <3>2, <4>2, PortsStay
    <3> HIDE DEF create
    <3> QED BY <3>1, <3>2 DEF Fits, Usable
  <2>4. A \in Part(c, E) /\ (t.creates => create \in E1)
    <3> HIDE DEF create
    <3> QED BY <1>2, <2>2, <2>3, GivenStep
  <2> HIDE DEF E1
  <2>5. B \in Arranged(c, E1, ToSet(C))
    <3>1. CASE t.unit = None
      BY <1>2, <3>1, ArrangedClosed DEF Given, Closed
    <3>2. CASE t.unit # None
      <4>1. Start(t.unit) \in ToSet(C)
        BY <3>2 DEF Given, ToSet
      <4>2. t.dev \in ServiceLinks(c) \cup {None}
        BY <1>2, <2>1, <3>2
      <4> HIDE DEF C
      <4> QED BY <2>2, <4>1, <4>2, WritePart, ReadByUnit
    <3> QED BY <3>1, <3>2
  <2>6. C \in Part(c, E2)
    BY <2>2, StartFits, GivenStep
  <2>7. t.creates => create \in E2 /\ create \in E3 /\ create \in E4
    BY <2>4, ThenMore
  <2> HIDE DEF E2, E3, E4, create
  <2>8. t.dev \in Usable(c, E3) /\ t.dev \in Usable(c, E4)
    BY <1>2, <2>1, <2>7, StepMakes DEF Usable, create
  <2>9. U \in Part(c, E3) /\ Simple("up", t.dev) \in Then(E3, U)
        /\ \A f \in ToSet(t.addresses) : Address(t.dev, f) \in Then(E3, U)
    BY <1>2, <2>2, <2>8, UpPart
  <2> HIDE DEF U
  <2>10. D \in Part(c, E3) /\ (~t.managed => E4 = Then(E3, U))
    <3> DEFINE ours == ~t.managed
    <3>1. ours \in BOOLEAN
      BY <1>2
    <3>2. U \in Part(c, E3)
      BY <2>9
    <3> HIDE DEF ours
    <3>3. Given(ours, U) \in Part(c, E3) /\ (ours => Then(E3, Given(ours, U)) = Then(E3, U))
      BY <3>1, <3>2, GivenPart
    <3> QED BY <3>3 DEF E4, D, ours
  <2>11. ~t.managed => /\ Simple("up", t.dev) \in E4
                       /\ \A f \in ToSet(t.addresses) : Address(t.dev, f) \in E4
    BY <2>9, <2>10
  <2>12. route \in PlanStep
    <3>1. TableSlot(t.table) \in Nat
      BY <1>2 DEF TableSlot
    <3> QED BY <2>2, <3>1, StepTypes
  <2>13. Fits(c, E4, route, {})
    <3>1. route.op = "route" /\ route.devs = {t.dev} /\ Needs(route) = {t.dev} /\ route.via = None
      BY DEF InstallRoute, Needs
    <3>2. t.dev \in ServiceLinks(c) \cup RisenBy(E4)
      BY <1>2, <2>1, <2>11, StepMakes
    <3>3. t.dev \in ServiceLinks(c) \cup Freestanding(E4)
      BY <1>2, <2>1, <2>7, StepMakes DEF create
    <3> HIDE DEF route
    <3> QED BY <2>8, <3>1, <3>2, <3>3 DEF Fits
  <2>14. R \in Part(c, E4)
    <3>1. (t.table > 0) \in BOOLEAN
      BY <1>2
    <3> HIDE DEF route
    <3> QED BY <2>12, <2>13, <3>1, GivenStep
  <2> HIDE DEF A, B, C, D, R, route
  <2>15. A \o B \in Arranged(c, E, ToSet(C)) /\ Then(E, A \o B) = E2
    <3>1. A \in Seq(PlanStep) /\ B \in Seq(PlanStep)
      BY <2>4, <2>5 DEF Arranged, Part
    <3>2. A \in Arranged(c, E, ToSet(C) \cup ToSet(B)) /\ B \in Arranged(c, E \cup ToSet(A), ToSet(C))
      BY <2>4, <2>5, ArrangedMore DEF Part, Then, E1
    <3>3. A \o B \in Arranged(c, E, ToSet(C))
      BY <3>1, <3>2, ArrangedConcat
    <3>4. ToSet(A \o B) = ToSet(A) \cup ToSet(B)
      BY <3>1, Concatenation
    <3> QED BY <3>3, <3>4 DEF Then, E1, E2
  <2> DEFINE ABC == (A \o B) \o C
             ABCD == ABC \o D
  <2>16. ABC \in Part(c, E) /\ Then(E, ABC) = E3
    BY <2>6, <2>15, WrittenThenStarted DEF E3
  <2> HIDE DEF ABC
  <2>17. ABCD \in Part(c, E) /\ Then(E, ABCD) = E4
    BY <2>10, <2>16, Appended DEF E4
  <2> HIDE DEF ABCD
  <2>18. ABCD \o R \in Part(c, E) /\ Then(E, ABCD \o R) = Then(E4, R)
    BY <2>14, <2>17, Appended
  <2>19. TunnelSteps(t) = ABCD \o R
    BY <1>4 DEF TunnelSteps, ABC, ABCD, A, B, C, U, D, R, create, route
  <2>20. E4 \subseteq Then(E, TunnelSteps(t))
    BY <2>18, <2>19, ThenMore
  <2>21. t \in OwnTunnels(c) =>
           /\ create \in E4 /\ Simple("up", t.dev) \in E4
           /\ \A f \in ToSet(t.addresses) : Address(t.dev, f) \in E4
    BY <1>2, <2>7, <2>11 DEF OwnTunnels
  <2> QED BY <2>18, <2>19, <2>20, <2>21 DEF create
<1> QED BY <1>3, <1>4

LEMMA RoutePart ==
  ASSUME NEW c \in Configs, NEW r \in ToSet(c.routes), NEW E,
         c \in ServedConfigs /\ Valid(c) => Ported(c, E) /\ Tunnelled(c, E)
  PROVE  RouteSteps(r) \in Part(c, E)
<1>1. r \in Route
  BY ConfigLists, Members
<1>2. r.slot \in Nat /\ r.devs \subseteq Links /\ r.via \in Families \cup {None}
  BY <1>1 DEF Route
<1> DEFINE s == InstallRoute(r)
<1>3. s \in PlanStep /\ s.op = "route" /\ s.devs = r.devs /\ Needs(s) = r.devs /\ s.via = r.via
  BY <1>2 DEF InstallRoute, PlanStep, Needs
<1> HIDE DEF s
<1>4. ASSUME c \in ServedConfigs, Valid(c)
      PROVE  /\ r.devs \subseteq Usable(c, E)
             /\ r.devs \subseteq ServiceLinks(c) \cup RisenBy(E)
             /\ r.devs \subseteq ServiceLinks(c) \cup Physical \cup Freestanding(E)
             /\ r.via # None => \A d \in r.devs : Reaches(c, E, d, r.via)
  <2>1. r.devs \subseteq Early(c) /\ (r.via # None => r.devs \X {r.via} \subseteq Addressed(c))
    BY <1>4, ServedFacts DEF Served
  <2>2. Ported(c, E) /\ Tunnelled(c, E)
    BY <1>4
  <2>3. \A l \in r.devs : l \in Links \cap Early(c)
    BY <1>2, <2>1
  <2>4. ASSUME r.via # None, NEW l \in r.devs PROVE Reaches(c, E, l, r.via)
    <3>1. l \in Links /\ r.via \in Families /\ <<l, r.via>> \in Addressed(c)
      BY <1>2, <2>1, <2>4
    <3> QED BY <1>4, <2>2, <3>1, EarlyLinks
  <2> QED BY <1>4, <2>2, <2>3, <2>4, EarlyLinks
<1>5. Fits(c, E, s, {})
  BY <1>3, <1>4 DEF Fits
<1> QED BY <1>3, <1>5, OneStep DEF RouteSteps, s

(* The members of a bond, a bridge or a VRF.                               *)
LEMMA MembersPart ==
  ASSUME NEW c, NEW E, NEW op \in {"enslave", "join", "attach"},
         NEW list \in Seq(Links), NEW m \in Links, m \in CreatedBy(E),
         c \in ServedConfigs /\ Valid(c) => ToSet(list) \subseteq Usable(c, E),
         c \in ServedConfigs /\ Valid(c) => op = "attach" \/ ToSet(list) \subseteq Ethernet
  PROVE  [i \in DOMAIN list |-> Under(op, list[i], m)] \in Part(c, E)
<1> DEFINE s == [i \in DOMAIN list |-> Under(op, list[i], m)]
<1>1. DOMAIN list = 1 .. Len(list) /\ Len(list) \in Nat
      /\ \A i \in DOMAIN list : list[i] \in Links /\ list[i] \in ToSet(list)
  BY Members
<1>2. \A i \in DOMAIN list : Under(op, list[i], m) \in PlanStep
  BY <1>1, StepTypes
<1>3. s \in Seq(PlanStep) /\ Len(s) = Len(list) /\ \A i \in 1 .. Len(s) : i \in DOMAIN list /\ s[i] = Under(op, list[i], m)
  BY <1>1, <1>2
<1>4. m \in Usable(c, E)
  BY DEF Usable
<1>5. ASSUME NEW i \in DOMAIN list PROVE Fits(c, E, Under(op, list[i], m), {})
  BY <1>1, <1>4 DEF Fits, Under, Needs
<1> HIDE DEF s
<1>6. \A i \in 1 .. Len(s) : Fits(c, E \cup Before(s, i), s[i], {} \cup After(s, i))
  BY <1>3, <1>5, FitsMore
<1>7. s \in Part(c, E)
  BY <1>3, <1>6 DEF Part, Arranged
<1> QED BY <1>7 DEF s

LEMMA MasterPart ==
  ASSUME NEW c, NEW E, NEW op \in {"enslave", "join"}, NEW m \in Master,
         c \in ServedConfigs /\ Valid(c) => ToSet(m.members) \subseteq Usable(c, E) \cap Ethernet
  PROVE  LET s == <<Create(m.name, None, None)>>
                    \o [i \in DOMAIN m.members |-> Under(op, m.members[i], m.name)]
                    \o <<Simple("up", m.name)>>
         IN s \in Part(c, E) /\ Create(m.name, None, None) \in Then(E, s)
              /\ Simple("up", m.name) \in Then(E, s)
<1> DEFINE create == Create(m.name, None, None)
           up == Simple("up", m.name)
           A == <<create>>
           B == [i \in DOMAIN m.members |-> Under(op, m.members[i], m.name)]
           C == <<up>>
           E1 == Then(E, A)
           E2 == Then(E1, B)
<1>1. m.name \in Links /\ m.members \in Seq(Links)
  BY DEF Master
<1>2. create \in PlanStep /\ up \in PlanStep
  BY <1>1, StepTypes
<1>3. Fits(c, E, create, {})
  BY DEF Fits, Create, Needs
<1>4. A \in Part(c, E) /\ create \in E1
  BY <1>2, <1>3, OneStep
<1>5. m.name \in CreatedBy(E1)
  BY <1>4, StepMakes
<1>6. Usable(c, E) \subseteq Usable(c, E1)
  BY ThenMore DEF Usable, CreatedBy
<1> HIDE DEF E1
<1>7. B \in Part(c, E1)
  BY <1>1, <1>5, <1>6, MembersPart
<1>8. create \in E2
  BY <1>4, ThenMore
<1> HIDE DEF E2
<1>9. Fits(c, E2, up, {})
  <2>1. m.name \in Usable(c, E2)
    BY <1>8, StepMakes DEF Usable
  <2> QED BY <2>1 DEF Fits, Simple, Needs
<1> HIDE DEF create, up
<1>10. C \in Part(c, E2) /\ up \in Then(E2, C)
  BY <1>2, <1>9, OneStep
<1> HIDE DEF A, B, C
<1>11. A \o B \in Part(c, E) /\ Then(E, A \o B) = E2
  BY <1>4, <1>7, Appended DEF E1, E2
<1>12. (A \o B) \o C \in Part(c, E) /\ Then(E, (A \o B) \o C) = Then(E2, C)
  BY <1>10, <1>11, Appended
<1>13. create \in Then(E2, C)
  BY <1>8, ThenMore
<1> QED BY <1>10, <1>12, <1>13 DEF A, B, C, create, up

LEMMA VlanPart ==
  ASSUME NEW c \in Configs, NEW v \in ToSet(c.vlans), NEW E,
         c \in ServedConfigs /\ Valid(c) =>
           v.parent \in Usable(c, E) /\ v.parent \in RisenBy(E) \cap (Physical \cup CreatedBy(E))
  PROVE  VlanSteps(v) \in Part(c, E) /\ Create(v.name, v.parent, None) \in Then(E, VlanSteps(v))
<1> DEFINE create == Create(v.name, v.parent, None)
           up == Simple("up", v.name)
           A == <<create>>
           B == AddressSteps(v.name, v.addresses)
           C == <<up>>
           E1 == Then(E, A)
           E2 == Then(E1, B)
<1>1. v \in Vlan
  BY ConfigLists, Members
<1>2. v.name \in Links /\ v.parent \in Links /\ v.addresses \in Seq(Families)
  BY <1>1 DEF Vlan
<1>3. create \in PlanStep /\ up \in PlanStep
  BY <1>2, StepTypes
<1>4. Fits(c, E, create, {})
  <2>1. create.op = "create" /\ create.parent = v.parent /\ create.under = None
        /\ Needs(create) = {v.parent, None} \ {None} /\ v.parent # None
    BY <1>2, NameAssumption DEF Create, Needs
  <2> HIDE DEF create
  <2> QED BY <2>1 DEF Fits
<1>5. A \in Part(c, E) /\ create \in E1
  BY <1>3, <1>4, OneStep
<1>6. create \in E2
  BY <1>5, ThenMore
<1> HIDE DEF E1, E2
<1>7. v.name \in Usable(c, E1) /\ Fits(c, E2, up, {})
  <2>1. v.name \in Usable(c, E1) /\ v.name \in Usable(c, E2)
    BY <1>5, <1>6, StepMakes DEF Usable
  <2> QED BY <2>1 DEF Fits, Simple, Needs
<1> HIDE DEF create, up
<1>8. B \in Part(c, E1)
  BY <1>2, <1>7, AddressesPart
<1>9. C \in Part(c, E2)
  BY <1>3, <1>7, OneStep
<1> HIDE DEF A, B, C
<1>10. A \o B \in Part(c, E) /\ Then(E, A \o B) = E2
  BY <1>5, <1>8, Appended DEF E1, E2
<1>11. (A \o B) \o C \in Part(c, E) /\ Then(E, (A \o B) \o C) = Then(E2, C)
  BY <1>9, <1>10, Appended
<1>12. create \in Then(E2, C)
  BY <1>6, ThenMore
<1> QED BY <1>11, <1>12 DEF VlanSteps, A, B, C, create, up

LEMMA VrfPart ==
  ASSUME NEW c, NEW v \in Master, NEW E,
         c \in ServedConfigs /\ Valid(c) => ToSet(v.members) \subseteq Usable(c, E)
  PROVE  VrfSteps(v) \in Part(c, E)
<1> DEFINE create == Create(v.name, None, None)
           up == Simple("up", v.name)
           A == <<create, up>>
           B == [i \in DOMAIN v.members |-> Under("attach", v.members[i], v.name)]
           E1 == Then(E, A)
<1>1. v.name \in Links /\ v.members \in Seq(Links)
  BY DEF Master
<1>2. create \in PlanStep /\ up \in PlanStep
  BY <1>1, StepTypes
<1>3. Fits(c, E, create, {})
  BY DEF Fits, Create, Needs
<1>4. Fits(c, E \cup {create}, up, {})
  <2>1. v.name \in Usable(c, E \cup {create})
    BY StepMakes DEF Usable
  <2> QED BY <2>1 DEF Fits, Simple, Needs
<1>5. A \in Part(c, E) /\ create \in E1
  <2> HIDE DEF create, up
  <2> QED BY <1>2, <1>3, <1>4, TwoSteps
<1>6. v.name \in CreatedBy(E1)
  BY <1>5, StepMakes
<1>7. Usable(c, E) \subseteq Usable(c, E1)
  BY ThenMore DEF Usable, CreatedBy
<1> HIDE DEF E1
<1>8. B \in Part(c, E1)
  BY <1>1, <1>6, <1>7, MembersPart
<1> HIDE DEF A, B
<1>9. A \o B \in Part(c, E)
  BY <1>5, <1>8, Appended DEF E1
<1> QED BY <1>9 DEF VrfSteps, A, B, create, up

LEMMA TunePart ==
  ASSUME NEW c, NEW link \in Links, NEW E,
         c \in ServedConfigs /\ Valid(c) => link \in Usable(c, E)
  PROVE  TuneSteps(link) \in Part(c, E)
<1> DEFINE tune == Simple("tune", link)
<1>1. tune \in PlanStep
  BY StepTypes
<1>2. Fits(c, E, tune, {})
  BY DEF Fits, Simple, Needs
<1> HIDE DEF tune
<1> QED BY <1>1, <1>2, OneStep DEF TuneSteps, tune

-----------------------------------------------------------------------------
(* The lists of a configuration, part by part.                             *)

LEMMA PartsInOrder ==
  ASSUME NEW c, NEW E, NEW S, NEW list \in Seq(S), NEW F,
         \A x \in ToSet(list) : F[x] \in Part(c, E)
  PROVE  LET s == FlattenSeq([i \in DOMAIN list |-> F[list[i]]]) IN
           s \in Part(c, E) /\ \A x \in ToSet(list) : Then(E, F[x]) \subseteq Then(E, s)
<1> DEFINE b == [i \in DOMAIN list |-> F[list[i]]]
<1>1. DOMAIN list = 1 .. Len(list) /\ Len(list) \in Nat /\ \A i \in DOMAIN list : list[i] \in ToSet(list)
  BY Members
<1>2. b \in Seq(Part(c, E)) /\ DOMAIN b = DOMAIN list /\ \A i \in DOMAIN list : b[i] = F[list[i]]
  BY <1>1
<1> HIDE DEF b
<1>3. Closed(Part(c, E), PlanStep)
  BY ArrangedClosed DEF Part
<1>4. /\ FlattenSeq(b) \in Part(c, E)
      /\ \A i \in DOMAIN b : ToSet(b[i]) \subseteq ToSet(FlattenSeq(b))
  BY <1>2, <1>3, FlattenInduction
<1>5. ASSUME NEW x \in ToSet(list) PROVE Then(E, F[x]) \subseteq Then(E, FlattenSeq(b))
  <2>1. PICK i \in DOMAIN list : list[i] = x
    BY DEF ToSet
  <2> QED BY <1>2, <1>4, <2>1 DEF Then
<1> QED BY <1>4, <1>5 DEF b

LEMMA InterfaceList ==
  ASSUME NEW c \in Configs, NEW E
  PROVE  /\ ForEach(c.interfaces, InterfaceSteps) \in Part(c, E)
         /\ Ported(c, Then(E, ForEach(c.interfaces, InterfaceSteps)))
<1> DEFINE F == [x \in ToSet(c.interfaces) |-> InterfaceSteps(x)]
<1>1. c.interfaces \in Seq(Interface)
  BY ConfigLists
<1>2. \A x \in ToSet(c.interfaces) : F[x] = InterfaceSteps(x) /\ InterfaceSteps(x) \in Part(c, E)
  BY InterfacePart
<1>3. \A x \in ToSet(c.interfaces) : F[x] \in Part(c, E)
  BY <1>2
<1>4. ForEach(c.interfaces, InterfaceSteps) = FlattenSeq([i \in DOMAIN c.interfaces |-> F[c.interfaces[i]]])
  BY <1>1, Members DEF ForEach
<1> HIDE DEF F
<1>5. ForEach(c.interfaces, InterfaceSteps) \in Part(c, E)
  BY <1>1, <1>3, <1>4, PartsInOrder
<1>6. \A x \in ToSet(c.interfaces) : Then(E, InterfaceSteps(x)) \subseteq Then(E, ForEach(c.interfaces, InterfaceSteps))
  BY <1>1, <1>2, <1>3, <1>4, PartsInOrder
<1>7. Ported(c, Then(E, ForEach(c.interfaces, InterfaceSteps)))
  BY <1>6, InterfacePart DEF Ported, Ports
<1> QED BY <1>5, <1>7

LEMMA AcmeList ==
  ASSUME NEW c \in Configs, NEW E
  PROVE  ForEach(c.acme, AcmeSteps) \in Part(c, E)
<1> DEFINE F == [x \in ToSet(c.acme) |-> AcmeSteps(x)]
<1>1. c.acme \in Seq(Service)
  BY ConfigLists
<1>2. \A x \in ToSet(c.acme) : F[x] = AcmeSteps(x) /\ AcmeSteps(x) \in Part(c, E)
  BY AcmePart
<1>3. \A x \in ToSet(c.acme) : F[x] \in Part(c, E)
  BY <1>2
<1>4. ForEach(c.acme, AcmeSteps) = FlattenSeq([i \in DOMAIN c.acme |-> F[c.acme[i]]])
  BY <1>1, Members DEF ForEach
<1> HIDE DEF F
<1>5. ForEach(c.acme, AcmeSteps) \in Part(c, E)
  BY <1>1, <1>3, <1>4, PartsInOrder
<1> QED BY <1>5

LEMMA TunnelList ==
  ASSUME NEW c \in Configs, NEW E
  PROVE  /\ ForEach(c.tunnels, TunnelSteps) \in Part(c, E)
         /\ Tunnelled(c, Then(E, ForEach(c.tunnels, TunnelSteps)))
<1> DEFINE F == [x \in ToSet(c.tunnels) |-> TunnelSteps(x)]
<1>1. c.tunnels \in Seq(Tunnel)
  BY ConfigLists
<1>2. \A x \in ToSet(c.tunnels) : F[x] = TunnelSteps(x) /\ TunnelSteps(x) \in Part(c, E)
  BY TunnelPart
<1>3. \A x \in ToSet(c.tunnels) : F[x] \in Part(c, E)
  BY <1>2
<1>4. ForEach(c.tunnels, TunnelSteps) = FlattenSeq([i \in DOMAIN c.tunnels |-> F[c.tunnels[i]]])
  BY <1>1, Members DEF ForEach
<1> HIDE DEF F
<1>5. ForEach(c.tunnels, TunnelSteps) \in Part(c, E)
  BY <1>1, <1>3, <1>4, PartsInOrder
<1>6. \A x \in ToSet(c.tunnels) : Then(E, TunnelSteps(x)) \subseteq Then(E, ForEach(c.tunnels, TunnelSteps))
  BY <1>1, <1>2, <1>3, <1>4, PartsInOrder
<1>7. Tunnelled(c, Then(E, ForEach(c.tunnels, TunnelSteps)))
  BY <1>6, TunnelPart DEF Tunnelled, OwnTunnels
<1> QED BY <1>5, <1>7

LEMMA RouteList ==
  ASSUME NEW c \in Configs, NEW E,
         c \in ServedConfigs /\ Valid(c) => Ported(c, E) /\ Tunnelled(c, E)
  PROVE  ForEach(c.routes, RouteSteps) \in Part(c, E)
<1> DEFINE F == [x \in ToSet(c.routes) |-> RouteSteps(x)]
<1>1. c.routes \in Seq(Route)
  BY ConfigLists
<1>2. \A x \in ToSet(c.routes) : F[x] = RouteSteps(x) /\ RouteSteps(x) \in Part(c, E)
  BY RoutePart
<1>3. \A x \in ToSet(c.routes) : F[x] \in Part(c, E)
  BY <1>2
<1>4. ForEach(c.routes, RouteSteps) = FlattenSeq([i \in DOMAIN c.routes |-> F[c.routes[i]]])
  BY <1>1, Members DEF ForEach
<1> HIDE DEF F
<1>5. ForEach(c.routes, RouteSteps) \in Part(c, E)
  BY <1>1, <1>3, <1>4, PartsInOrder
<1> QED BY <1>5

LEMMA ServiceList ==
  ASSUME NEW c \in Configs, NEW E, NEW list \in {c.services, c.vrrp, c.frr, c.jobs, c.guards}
  PROVE  ForEach(list, ServiceSteps) \in Part(c, E)
<1> DEFINE F == [x \in ToSet(list) |-> ServiceSteps(x)]
<1>1. list \in Seq(Service)
  BY ConfigLists
<1>2. \A x \in ToSet(list) : x \in Service /\ (x.path # None => UnitOf[x.path] = x.unit)
  BY <1>1, Members, ReadByUnit
<1>3. \A x \in ToSet(list) : F[x] \in Part(c, E)
  BY <1>2, ServicePart
<1>4. ForEach(list, ServiceSteps) = FlattenSeq([i \in DOMAIN list |-> F[list[i]]])
  BY <1>1, Members DEF ForEach
<1> HIDE DEF F
<1> QED BY <1>1, <1>3, <1>4, PartsInOrder

LEMMA TuneList ==
  ASSUME NEW c, NEW E, NEW list \in Seq(Links),
         c \in ServedConfigs /\ Valid(c) => ToSet(list) \subseteq Usable(c, E)
  PROVE  ForEach(list, TuneSteps) \in Part(c, E)
<1> DEFINE F == [x \in ToSet(list) |-> TuneSteps(x)]
<1>1. \A x \in ToSet(list) : x \in Links
  BY Members
<1>2. \A x \in ToSet(list) : F[x] \in Part(c, E)
  BY <1>1, TunePart
<1>3. ForEach(list, TuneSteps) = FlattenSeq([i \in DOMAIN list |-> F[list[i]]])
  BY Members DEF ForEach
<1> HIDE DEF F
<1> QED BY <1>2, <1>3, PartsInOrder

LEMMA BondList ==
  ASSUME NEW c \in Configs, NEW E,
         c \in ServedConfigs /\ Valid(c) => Elements(c.bonds, MembersOf) \subseteq Usable(c, E) \cap Ethernet
  PROVE  /\ ForEach(c.bonds, BondSteps) \in Part(c, E)
         /\ Mastered(c.bonds, Then(E, ForEach(c.bonds, BondSteps)))
<1> DEFINE F == [x \in ToSet(c.bonds) |-> BondSteps(x)]
<1>1. c.bonds \in Seq(Master)
  BY ConfigLists
<1>2. ASSUME NEW x \in ToSet(c.bonds)
      PROVE  /\ BondSteps(x) \in Part(c, E)
             /\ Create(x.name, None, None) \in Then(E, BondSteps(x))
             /\ Simple("up", x.name) \in Then(E, BondSteps(x))
  <2>1. x \in Master
    BY <1>1, Members
  <2>2. ToSet(x.members) \subseteq Elements(c.bonds, MembersOf)
    BY DEF ToSet, Elements, MembersOf
  <2> QED BY <2>1, <2>2, MasterPart DEF BondSteps
<1>3. \A x \in ToSet(c.bonds) : F[x] = BondSteps(x) /\ F[x] \in Part(c, E)
  BY <1>2
<1>4. ForEach(c.bonds, BondSteps) = FlattenSeq([i \in DOMAIN c.bonds |-> F[c.bonds[i]]])
  BY <1>1, Members DEF ForEach
<1> HIDE DEF F
<1>5. ForEach(c.bonds, BondSteps) \in Part(c, E)
  BY <1>1, <1>3, <1>4, PartsInOrder
<1>6. \A x \in ToSet(c.bonds) : Then(E, BondSteps(x)) \subseteq Then(E, ForEach(c.bonds, BondSteps))
  BY <1>1, <1>3, <1>4, PartsInOrder
<1>7. Mastered(c.bonds, Then(E, ForEach(c.bonds, BondSteps)))
  BY <1>2, <1>6 DEF Mastered
<1> QED BY <1>5, <1>7

LEMMA BridgeList ==
  ASSUME NEW c \in Configs, NEW E,
         c \in ServedConfigs /\ Valid(c) => Elements(c.bridges, MembersOf) \subseteq Usable(c, E) \cap Ethernet
  PROVE  /\ ForEach(c.bridges, BridgeSteps) \in Part(c, E)
         /\ Mastered(c.bridges, Then(E, ForEach(c.bridges, BridgeSteps)))
<1> DEFINE F == [x \in ToSet(c.bridges) |-> BridgeSteps(x)]
<1>1. c.bridges \in Seq(Master)
  BY ConfigLists
<1>2. ASSUME NEW x \in ToSet(c.bridges)
      PROVE  /\ BridgeSteps(x) \in Part(c, E)
             /\ Create(x.name, None, None) \in Then(E, BridgeSteps(x))
             /\ Simple("up", x.name) \in Then(E, BridgeSteps(x))
  <2>1. x \in Master
    BY <1>1, Members
  <2>2. ToSet(x.members) \subseteq Elements(c.bridges, MembersOf)
    BY DEF ToSet, Elements, MembersOf
  <2> QED BY <2>1, <2>2, MasterPart DEF BridgeSteps
<1>3. \A x \in ToSet(c.bridges) : F[x] = BridgeSteps(x) /\ F[x] \in Part(c, E)
  BY <1>2
<1>4. ForEach(c.bridges, BridgeSteps) = FlattenSeq([i \in DOMAIN c.bridges |-> F[c.bridges[i]]])
  BY <1>1, Members DEF ForEach
<1> HIDE DEF F
<1>5. ForEach(c.bridges, BridgeSteps) \in Part(c, E)
  BY <1>1, <1>3, <1>4, PartsInOrder
<1>6. \A x \in ToSet(c.bridges) : Then(E, BridgeSteps(x)) \subseteq Then(E, ForEach(c.bridges, BridgeSteps))
  BY <1>1, <1>3, <1>4, PartsInOrder
<1>7. Mastered(c.bridges, Then(E, ForEach(c.bridges, BridgeSteps)))
  BY <1>2, <1>6 DEF Mastered
<1> QED BY <1>5, <1>7

LEMMA VlanList ==
  ASSUME NEW c \in Configs, NEW E,
         c \in ServedConfigs /\ Valid(c) =>
           /\ Elements(c.vlans, ParentOf) \subseteq Usable(c, E)
           /\ Elements(c.vlans, ParentOf) \subseteq RisenBy(E) \cap (Physical \cup CreatedBy(E))
  PROVE  /\ ForEach(c.vlans, VlanSteps) \in Part(c, E)
         /\ Tagged(c, Then(E, ForEach(c.vlans, VlanSteps)))
<1> DEFINE F == [x \in ToSet(c.vlans) |-> VlanSteps(x)]
<1>1. c.vlans \in Seq(Vlan)
  BY ConfigLists
<1>2. ASSUME NEW x \in ToSet(c.vlans)
      PROVE  VlanSteps(x) \in Part(c, E) /\ Create(x.name, x.parent, None) \in Then(E, VlanSteps(x))
  <2>1. x.parent \in Elements(c.vlans, ParentOf)
    BY DEF ToSet, Elements, ParentOf
  <2> QED BY <2>1, VlanPart
<1>3. \A x \in ToSet(c.vlans) : F[x] = VlanSteps(x) /\ F[x] \in Part(c, E)
  BY <1>2
<1>4. ForEach(c.vlans, VlanSteps) = FlattenSeq([i \in DOMAIN c.vlans |-> F[c.vlans[i]]])
  BY <1>1, Members DEF ForEach
<1> HIDE DEF F
<1>5. ForEach(c.vlans, VlanSteps) \in Part(c, E)
  BY <1>1, <1>3, <1>4, PartsInOrder
<1>6. \A x \in ToSet(c.vlans) : Then(E, VlanSteps(x)) \subseteq Then(E, ForEach(c.vlans, VlanSteps))
  BY <1>1, <1>3, <1>4, PartsInOrder
<1>7. Tagged(c, Then(E, ForEach(c.vlans, VlanSteps)))
  BY <1>2, <1>6 DEF Tagged
<1> QED BY <1>5, <1>7

LEMMA VrfList ==
  ASSUME NEW c \in Configs, NEW E,
         c \in ServedConfigs /\ Valid(c) => Elements(c.vrfs, MembersOf) \subseteq Usable(c, E)
  PROVE  ForEach(c.vrfs, VrfSteps) \in Part(c, E)
<1> DEFINE F == [x \in ToSet(c.vrfs) |-> VrfSteps(x)]
<1>1. c.vrfs \in Seq(Master)
  BY ConfigLists
<1>2. ASSUME NEW x \in ToSet(c.vrfs) PROVE F[x] \in Part(c, E)
  <2>1. x \in Master
    BY <1>1, Members
  <2>2. ToSet(x.members) \subseteq Elements(c.vrfs, MembersOf)
    BY DEF ToSet, Elements, MembersOf
  <2> QED BY <2>1, <2>2, VrfPart
<1>3. ForEach(c.vrfs, VrfSteps) = FlattenSeq([i \in DOMAIN c.vrfs |-> F[c.vrfs[i]]])
  BY <1>1, Members DEF ForEach
<1> HIDE DEF F
<1> QED BY <1>1, <1>2, <1>3, PartsInOrder

-----------------------------------------------------------------------------
(* The whole plan.                                                         *)

LEMMA PartsAreLinks ==
  ASSUME NEW c \in Configs
  PROVE  /\ Elements(c.bonds, MembersOf) \subseteq Links
         /\ Elements(c.bridges, MembersOf) \subseteq Links
         /\ Elements(c.vlans, ParentOf) \subseteq Links
         /\ Elements(c.vrfs, MembersOf) \subseteq Links
         /\ ToSet(c.queues) \subseteq Links /\ ToSet(c.mpls) \subseteq Links
<1>1. ASSUME NEW list \in Seq(Master) PROVE Elements(list, MembersOf) \subseteq Links
  <2>0. \A i \in DOMAIN list : list[i] \in Master
    BY Members
  <2>1. \A i \in DOMAIN list : list[i].members \in Seq(Links)
    BY <2>0 DEF Master
  <2>2. \A i \in DOMAIN list : ToSet(list[i].members) \subseteq Links
    BY <2>1, Members
  <2> QED BY <2>2 DEF Elements, MembersOf
<1>2. ASSUME NEW list \in Seq(Vlan) PROVE Elements(list, ParentOf) \subseteq Links
  <2>1. \A i \in DOMAIN list : list[i] \in Vlan
    BY Members
  <2>2. \A i \in DOMAIN list : list[i].parent \in Links
    BY <2>1 DEF Vlan
  <2> QED BY <2>2 DEF Elements, ParentOf
<1> QED BY <1>1, <1>2, ConfigLists, Members

LEMMA MasterLinks ==
  ASSUME NEW list, NEW E, Mastered(list, E)
  PROVE  Names(list) \subseteq CreatedBy(E) \cap RisenBy(E)
<1>1. ASSUME NEW i \in DOMAIN list PROVE list[i].name \in CreatedBy(E) \cap RisenBy(E)
  <2>1. Create(list[i].name, None, None) \in E /\ Simple("up", list[i].name) \in E
    BY DEF Mastered, ToSet
  <2> QED BY <2>1, StepMakes
<1> QED BY <1>1 DEF Names, Elements, NameOf

LEMMA VlanLinks ==
  ASSUME NEW c, NEW E, Tagged(c, E)
  PROVE  Names(c.vlans) \subseteq CreatedBy(E)
<1>1. ASSUME NEW i \in DOMAIN c.vlans PROVE c.vlans[i].name \in CreatedBy(E)
  <2>1. Create(c.vlans[i].name, c.vlans[i].parent, None) \in E
    BY DEF Tagged, ToSet
  <2> QED BY <2>1, StepMakes
<1> QED BY <1>1 DEF Names, Elements, NameOf

LEMMA Layer2Part ==
  ASSUME NEW c \in Configs, NEW E, Ported(c, E), Tunnelled(c, E)
  PROVE  LET F == Then(E, Layer2(c)) IN
           /\ Layer2(c) \in Part(c, E)
           /\ Mastered(c.bonds, F) /\ Mastered(c.bridges, F) /\ Tagged(c, F)
<1> DEFINE A == ForEach(c.bonds, BondSteps)
           B == ForEach(c.bridges, BridgeSteps)
           C == ForEach(c.vlans, VlanSteps)
           D == ForEach(c.vrrp, ServiceSteps)
           E1 == Then(E, A)
           E2 == Then(E1, B)
           E3 == Then(E2, C)
           E4 == Then(E3, D)
<1>1. c \in ServedConfigs =>
        /\ Elements(c.bonds, MembersOf) \subseteq Links \cap Early(c)
        /\ Elements(c.bridges, MembersOf) \subseteq (Links \cap Early(c)) \cup Names(c.bonds)
        /\ Elements(c.bonds, MembersOf) \cup Elements(c.bridges, MembersOf) \subseteq Ethernet
        /\ Elements(c.vlans, ParentOf) \subseteq (Links \cap Own(c)) \cup Masters(c)
        /\ Own(c) \subseteq Early(c)
  BY PartsAreLinks, ServedFacts DEF Served, Early
<1>2. A \in Part(c, E) /\ Mastered(c.bonds, E1)
  <2>1. c \in ServedConfigs /\ Valid(c) => Elements(c.bonds, MembersOf) \subseteq Usable(c, E) \cap Ethernet
    BY <1>1, EarlyLinks
  <2> QED BY <2>1, BondList
<1> HIDE DEF A, E1
<1>3. Ported(c, E1) /\ Tunnelled(c, E1)
  BY ThenMore, MoreDone DEF E1
<1>4. B \in Part(c, E1) /\ Mastered(c.bridges, E2)
  <2>1. c \in ServedConfigs /\ Valid(c) => Elements(c.bridges, MembersOf) \subseteq Usable(c, E1) \cap Ethernet
    BY <1>1, <1>2, <1>3, EarlyLinks, MasterLinks DEF Usable
  <2> QED BY <2>1, BridgeList
<1> HIDE DEF B, E2
<1>5. E1 \subseteq E2
  BY ThenMore DEF E2
<1>6. Ported(c, E2) /\ Tunnelled(c, E2) /\ Mastered(c.bonds, E2)
  BY <1>2, <1>3, <1>5, MoreDone
<1>7. C \in Part(c, E2) /\ Tagged(c, E3)
  <2>1. Masters(c) \subseteq CreatedBy(E2) \cap RisenBy(E2)
    BY <1>4, <1>6, MasterLinks DEF Masters
  <2>2. ASSUME c \in ServedConfigs, Valid(c)
        PROVE  \A l \in Links \cap Own(c) :
                 l \in Usable(c, E2) /\ l \in RisenBy(E2) \cap (Physical \cup CreatedBy(E2))
    BY <1>1, <1>6, <2>2, EarlyLinks
  <2>3. c \in ServedConfigs /\ Valid(c) =>
          /\ Elements(c.vlans, ParentOf) \subseteq Usable(c, E2)
          /\ Elements(c.vlans, ParentOf) \subseteq RisenBy(E2) \cap (Physical \cup CreatedBy(E2))
    BY <1>1, <2>1, <2>2 DEF Usable
  <2> QED BY <2>3, VlanList
<1> HIDE DEF C, E3
<1>8. D \in Part(c, E3)
  BY ServiceList
<1> HIDE DEF D, E4
<1>9. E2 \subseteq E3 /\ E3 \subseteq E4
  BY ThenMore DEF E3, E4
<1>10. Mastered(c.bonds, E4) /\ Mastered(c.bridges, E4) /\ Tagged(c, E4)
  <2>1. E2 \subseteq E4
    BY <1>9
  <2> QED BY <1>4, <1>6, <1>7, <1>9, <2>1, MoreDone
<1> DEFINE AB == A \o B
           ABC == AB \o C
<1>11. AB \in Part(c, E) /\ Then(E, AB) = E2
  BY <1>2, <1>4, Appended DEF E1, E2
<1> HIDE DEF AB
<1>12. ABC \in Part(c, E) /\ Then(E, ABC) = E3
  BY <1>7, <1>11, Appended DEF E3
<1> HIDE DEF ABC
<1>13. ABC \o D \in Part(c, E) /\ Then(E, ABC \o D) = E4
  BY <1>8, <1>12, Appended DEF E4
<1>14. Layer2(c) = ABC \o D
  BY DEF Layer2, ABC, AB, A, B, C, D
<1> QED BY <1>10, <1>13, <1>14

LEMMA DynamicRoutingPart ==
  ASSUME NEW c \in Configs, NEW E,
         c \in ServedConfigs /\ Valid(c) =>
           Elements(c.vrfs, MembersOf) \cup ToSet(c.mpls) \subseteq Usable(c, E)
  PROVE  DynamicRouting(c) \in Part(c, E)
<1> DEFINE A == ForEach(c.vrfs, VrfSteps)
           B == ForEach(c.frr, ServiceSteps)
           C == ForEach(c.mpls, TuneSteps)
           E1 == Then(E, A)
           E2 == Then(E1, B)
<1>1. A \in Part(c, E)
  BY VrfList
<1>2. Usable(c, E) \subseteq Usable(c, E2)
  BY ThenMore DEF Usable, CreatedBy
<1> HIDE DEF A, E1
<1>3. B \in Part(c, E1)
  BY ServiceList
<1> HIDE DEF B, E2
<1>4. C \in Part(c, E2)
  <2>1. c.mpls \in Seq(Links)
    BY ConfigLists
  <2>2. c \in ServedConfigs /\ Valid(c) => ToSet(c.mpls) \subseteq Usable(c, E2)
    BY <1>2
  <2> QED BY <2>1, <2>2, TuneList
<1> HIDE DEF C
<1>5. A \o B \in Part(c, E) /\ Then(E, A \o B) = E2
  BY <1>1, <1>3, Appended DEF E1, E2
<1>6. (A \o B) \o C \in Part(c, E)
  BY <1>4, <1>5, Appended
<1> QED BY <1>6 DEF DynamicRouting, A, B, C

LEMMA PlatformPart ==
  ASSUME NEW c \in Configs, NEW E, Ported(c, E), Tunnelled(c, E)
  PROVE  Platform(c) \in Part(c, E)
<1> DEFINE A == Layer2(c)
           B == DynamicRouting(c)
           C == Queues(c)
           D == Jobs(c)
           E1 == Then(E, A)
           E2 == Then(E1, B)
           E3 == Then(E2, C)
           Rest == Elements(c.vrfs, MembersOf) \cup ToSet(c.queues) \cup ToSet(c.mpls)
<1>1. A \in Part(c, E) /\ Mastered(c.bonds, E1) /\ Mastered(c.bridges, E1) /\ Tagged(c, E1)
  BY Layer2Part
<1>2. Ported(c, E1) /\ Tunnelled(c, E1)
  BY ThenMore, MoreDone
<1> HIDE DEF A, E1
<1>3. c \in ServedConfigs /\ Valid(c) => Rest \subseteq Usable(c, E1)
  <2> SUFFICES ASSUME c \in ServedConfigs, Valid(c) PROVE Rest \subseteq Usable(c, E1)
    OBVIOUS
  <2>1. Rest \subseteq Links
    BY PartsAreLinks
  <2>2. Rest \subseteq Early(c) \cup Masters(c) \cup Names(c.vlans)
    BY ServedFacts DEF Served
  <2>3. Masters(c) \cup Names(c.vlans) \subseteq Usable(c, E1)
    BY <1>1, MasterLinks, VlanLinks DEF Masters, Usable
  <2>4. \A l \in Links \cap Early(c) : l \in Usable(c, E1)
    BY <1>2, EarlyLinks
  <2> HIDE DEF Rest
  <2> QED BY <2>1, <2>2, <2>3, <2>4
<1>4. B \in Part(c, E1)
  BY <1>3, DynamicRoutingPart
<1>5. Usable(c, E1) \subseteq Usable(c, E2)
  BY ThenMore DEF Usable, CreatedBy
<1> HIDE DEF B, E2
<1>6. C \in Part(c, E2)
  <2>1. c.queues \in Seq(Links)
    BY ConfigLists
  <2>2. c \in ServedConfigs /\ Valid(c) => ToSet(c.queues) \subseteq Usable(c, E2)
    BY <1>3, <1>5
  <2> QED BY <2>1, <2>2, TuneList DEF Queues
<1> HIDE DEF C, E3
<1>7. D \in Part(c, E3)
  BY ServiceList DEF Jobs
<1> HIDE DEF D
<1> DEFINE AB == A \o B
           ABC == AB \o C
<1>8. AB \in Part(c, E) /\ Then(E, AB) = E2
  BY <1>1, <1>4, Appended DEF E1, E2
<1> HIDE DEF AB
<1>9. ABC \in Part(c, E) /\ Then(E, ABC) = E3
  BY <1>6, <1>8, Appended DEF E3
<1> HIDE DEF ABC
<1>10. ABC \o D \in Part(c, E)
  BY <1>7, <1>9, Appended
<1> QED BY <1>10 DEF Platform, ABC, AB, A, B, C, D

LEMMA ServicesPart ==
  ASSUME NEW c \in Configs, NEW E
  PROVE  Services(c) \in Part(c, E)
<1> DEFINE A == ForEach(c.services, ServiceSteps)
           B == Given(c.mpls # <<>>, <<Start(Frr)>>)
<1>1. A \in Part(c, E)
  BY ServiceList
<1> HIDE DEF A
<1>2. Start(Frr) \in PlanStep
  BY NameAssumption, StepTypes
<1>3. Fits(c, Then(E, A), Start(Frr), {})
  BY StartFits
<1>4. B \in Part(c, Then(E, A))
  BY <1>2, <1>3, GivenStep
<1> HIDE DEF B
<1>5. A \o B \in Part(c, E)
  BY <1>1, <1>4, Appended
<1> QED BY <1>5 DEF Services, A, B

(* Every step of a plan fits where it stands (BuildPlan, builder.go:13-36, *)
(* and what it calls): what it needs was made, set up and addressed before *)
(* or is a service's, and a start comes after each profile.                *)
THEOREM PlanInOrder ==
  ASSUME NEW c \in Configs
  PROVE  Plan(c) \in Part(c, {})
<1> DEFINE A == Given(c.conntrack, <<Only("conntrack")>>)
           I == ForEach(c.interfaces, InterfaceSteps)
           K == ForEach(c.acme, AcmeSteps)
           T == ForEach(c.tunnels, TunnelSteps)
           R == ForEach(c.routes, RouteSteps)
           S == Services(c)
           P == Platform(c)
           G == Security(c)
           L == <<Only("load")>>
           E1 == Then({}, A)
           E2 == Then(E1, I)
           E3 == Then(E2, K)
           E4 == Then(E3, T)
           E5 == Then(E4, R)
           E6 == Then(E5, S)
           E7 == Then(E6, P)
           E8 == Then(E7, G)
<1>1. A \in Part(c, {})
  <2>1. Only("conntrack") \in PlanStep /\ Fits(c, {}, Only("conntrack"), {}) /\ c.conntrack \in BOOLEAN
    BY StepTypes, StartFits, ConfigLists
  <2> QED BY <2>1, GivenStep
<1> HIDE DEF A, E1
<1>2. I \in Part(c, E1) /\ Ported(c, E2)
  BY InterfaceList
<1> HIDE DEF I, E2
<1>3. K \in Part(c, E2)
  BY AcmeList
<1> HIDE DEF K, E3
<1>4. T \in Part(c, E3) /\ Tunnelled(c, E4)
  BY TunnelList
<1> HIDE DEF T, E4
<1>5. Ported(c, E4)
  <2>1. E2 \subseteq E3 /\ E3 \subseteq E4
    BY ThenMore DEF E3, E4
  <2>2. E2 \subseteq E4
    BY <2>1
  <2> QED BY <1>2, <2>2, MoreDone
<1>6. R \in Part(c, E4)
  BY <1>4, <1>5, RouteList
<1> HIDE DEF R, E5
<1>7. S \in Part(c, E5)
  BY ServicesPart
<1> HIDE DEF S, E6
<1>8. Ported(c, E6) /\ Tunnelled(c, E6)
  <2>1. E4 \subseteq E5 /\ E5 \subseteq E6
    BY ThenMore DEF E5, E6
  <2>2. E4 \subseteq E6
    BY <2>1
  <2> QED BY <1>4, <1>5, <2>2, MoreDone
<1>9. P \in Part(c, E6)
  BY <1>8, PlatformPart
<1> HIDE DEF P, E7
<1>10. G \in Part(c, E7)
  BY ServiceList DEF Security
<1> HIDE DEF G, E8
<1>11. L \in Part(c, E8)
  BY StepTypes, StartFits, OneStep
<1> HIDE DEF L
<1> DEFINE P1 == A \o I
           P2 == P1 \o K
           P3 == P2 \o T
           P4 == P3 \o R
           P5 == P4 \o S
           P6 == P5 \o P
           P7 == P6 \o G
<1>12. P1 \in Part(c, {}) /\ Then({}, P1) = E2
  BY <1>1, <1>2, Appended DEF E1, E2
<1> HIDE DEF P1
<1>13. P2 \in Part(c, {}) /\ Then({}, P2) = E3
  BY <1>3, <1>12, Appended DEF E3
<1> HIDE DEF P2
<1>14. P3 \in Part(c, {}) /\ Then({}, P3) = E4
  BY <1>4, <1>13, Appended DEF E4
<1> HIDE DEF P3
<1>15. P4 \in Part(c, {}) /\ Then({}, P4) = E5
  BY <1>6, <1>14, Appended DEF E5
<1> HIDE DEF P4
<1>16. P5 \in Part(c, {}) /\ Then({}, P5) = E6
  BY <1>7, <1>15, Appended DEF E6
<1> HIDE DEF P5
<1>17. P6 \in Part(c, {}) /\ Then({}, P6) = E7
  BY <1>9, <1>16, Appended DEF E7
<1> HIDE DEF P6
<1>18. P7 \in Part(c, {}) /\ Then({}, P7) = E8
  BY <1>10, <1>17, Appended DEF E8
<1> HIDE DEF P7
<1>19. P7 \o L \in Part(c, {})
  BY <1>11, <1>18, Appended
<1> QED BY <1>19 DEF Plan, P1, P2, P3, P4, P5, P6, P7, A, I, K, T, R, S, P, G, L

-----------------------------------------------------------------------------
(* Routes come before links get masters.                                   *)

Plain == {s \in PlanStep : s.op \notin {"route", "enslave", "join", "attach"}}
Forward == {s \in PlanStep : s.op \notin {"enslave", "join", "attach"}}
Grouping == {s \in PlanStep : s.op # "route"}
RoutesFirst ==
  {s \in Seq(PlanStep) :
     \A i, j \in 1 .. Len(s) : s[i].op = "route" /\ j < i => s[j] \in Forward}

LEMMA PlainSteps ==
  /\ \A op \in {"up", "down", "tune"}, l \in Links : Simple(op, l) \in Plain
  /\ \A l \in Links, f \in Families : Address(l, f) \in Plain
  /\ \A l \in Links, p, u \in Links \cup {None} : Create(l, p, u) \in Plain
  /\ \A op \in {"enslave", "join", "attach"}, l, m \in Links : Under(op, l, m) \in Grouping
  /\ \A slot \in Nat, devs \in SUBSET Links, via \in Families \cup {None} :
       InstallRoute([slot |-> slot, devs |-> devs, via |-> via]) \in Forward
  /\ \A p \in Paths, dev \in Links \cup {None}, version \in Nat : Write(p, dev, version) \in Plain
  /\ \A u \in Units : Start(u) \in Plain
  /\ \A op \in {"conntrack", "certbot", "load"} : Only(op) \in Plain
  /\ Plain \subseteq Forward /\ Plain \subseteq Grouping
<1>1. /\ \A op, l : Simple(op, l).op = op
      /\ \A l, f : Address(l, f).op = "address"
      /\ \A l, p, u : Create(l, p, u).op = "create"
      /\ \A op, l, m : Under(op, l, m).op = op
      /\ \A r : InstallRoute(r).op = "route"
      /\ \A p, dev, version : Write(p, dev, version).op = "write"
      /\ \A u : Start(u).op = "start"
      /\ \A op : Only(op).op = op
  BY DEF Simple, Address, Create, Under, InstallRoute, Write, Start, Only
<1>2. /\ \A op \in {"up", "down", "tune"}, l \in Links : Simple(op, l) \in Plain
      /\ \A l \in Links, f \in Families : Address(l, f) \in Plain
      /\ \A l \in Links, p, u \in Links \cup {None} : Create(l, p, u) \in Plain
  BY <1>1, StepTypes DEF Plain
<1>3. \A op \in {"enslave", "join", "attach"}, l, m \in Links : Under(op, l, m) \in Grouping
  BY <1>1, StepTypes DEF Grouping
<1>4. \A slot \in Nat, devs \in SUBSET Links, via \in Families \cup {None} :
        InstallRoute([slot |-> slot, devs |-> devs, via |-> via]) \in Forward
  BY <1>1, StepTypes DEF Forward
<1>5. /\ \A p \in Paths, dev \in Links \cup {None}, version \in Nat : Write(p, dev, version) \in Plain
      /\ \A u \in Units : Start(u) \in Plain
      /\ \A op \in {"conntrack", "certbot", "load"} : Only(op) \in Plain
  BY <1>1, StepTypes DEF Plain
<1>6. Plain \subseteq Forward /\ Plain \subseteq Grouping
  BY DEF Plain, Forward, Grouping
<1> QED BY <1>2, <1>3, <1>4, <1>5, <1>6

LEMMA Sequences ==
  ASSUME NEW S
  PROVE  /\ \A s, t \in Seq(S) : s \o t \in Seq(S)
         /\ \A x \in S : <<x>> \in Seq(S)
         /\ \A x, y \in S : <<x, y>> \in Seq(S)
         /\ \A b \in BOOLEAN : \A x : (b => x \in S) => Given(b, <<x>>) \in Seq(S)
         /\ Closed(Seq(S), S)
<1>1. \A s, t \in Seq(S) : s \o t \in Seq(S)
  OBVIOUS
<1>2. \A x \in S : <<x>> \in Seq(S)
  OBVIOUS
<1>3. <<>> \in Seq(S)
  OBVIOUS
<1>4. \A x, y \in S : <<x, y>> \in Seq(S)
  OBVIOUS
<1> QED BY <1>1, <1>2, <1>3, <1>4 DEF Given, Closed

LEMMA ListWithin ==
  ASSUME NEW S, NEW T, NEW list \in Seq(T), NEW F, \A x \in ToSet(list) : F[x] \in Seq(S)
  PROVE  FlattenSeq([i \in DOMAIN list |-> F[list[i]]]) \in Seq(S)
<1> DEFINE b == [i \in DOMAIN list |-> F[list[i]]]
<1>1. DOMAIN list = 1 .. Len(list) /\ Len(list) \in Nat /\ \A i \in DOMAIN list : list[i] \in ToSet(list)
  BY Members
<1>2. b \in Seq(Seq(S))
  BY <1>1
<1> HIDE DEF b
<1>3. Closed(Seq(S), S)
  BY Sequences
<1>4. FlattenSeq(b) \in Seq(S)
  BY <1>2, <1>3, FlattenInduction
<1> QED BY <1>4 DEF b

LEMMA AddressesArePlain ==
  ASSUME NEW l \in Links, NEW list \in Seq(Families)
  PROVE  AddressSteps(l, list) \in Seq(Plain)
<1>1. DOMAIN list = 1 .. Len(list) /\ Len(list) \in Nat /\ \A i \in DOMAIN list : list[i] \in Families
  BY Members
<1>2. \A i \in DOMAIN list : Address(l, list[i]) \in Plain
  BY <1>1, PlainSteps
<1> QED BY <1>1, <1>2 DEF AddressSteps

LEMMA PlainIsBoth ==
  ASSUME NEW s \in Seq(Plain)
  PROVE  s \in Seq(Forward) /\ s \in Seq(Grouping)
  BY PlainSteps

LEMMA FrontIsForward ==
  ASSUME NEW c \in Configs
  PROVE  /\ Given(c.conntrack, <<Only("conntrack")>>) \in Seq(Forward)
         /\ \A i \in ToSet(c.interfaces) : InterfaceSteps(i) \in Seq(Forward)
         /\ \A s \in ToSet(c.acme) : AcmeSteps(s) \in Seq(Forward)
         /\ \A t \in ToSet(c.tunnels) : TunnelSteps(t) \in Seq(Forward)
         /\ \A r \in ToSet(c.routes) : RouteSteps(r) \in Seq(Forward)
<1>1. Given(c.conntrack, <<Only("conntrack")>>) \in Seq(Forward)
  BY PlainSteps, Sequences, ConfigLists
<1>2. ASSUME NEW i \in ToSet(c.interfaces) PROVE InterfaceSteps(i) \in Seq(Forward)
  <2> DEFINE route == InstallRoute([slot |-> MainSlot(i.gateway), devs |-> {i.name}, via |-> i.gateway])
             A == <<Simple("up", i.name)>>
             B == AddressSteps(i.name, i.addresses)
             C == Given(i.gateway # None, <<route>>)
  <2>1. i \in Interface
    BY ConfigLists, Members
  <2>2. i.name \in Links /\ i.addresses \in Seq(Families) /\ i.gateway \in Families \cup {None}
        /\ MainSlot(i.gateway) \in Nat
    BY <2>1 DEF Interface, MainSlot
  <2>3. route \in Forward
    BY <2>2, PlainSteps
  <2>4. Simple("up", i.name) \in Forward /\ Simple("down", i.name) \in Forward
    BY <2>2, PlainSteps
  <2> HIDE DEF route
  <2>5. A \in Seq(Forward) /\ B \in Seq(Forward) /\ C \in Seq(Forward)
        /\ <<Simple("down", i.name)>> \in Seq(Forward)
    BY <2>2, <2>3, <2>4, Sequences, AddressesArePlain, PlainIsBoth
  <2> HIDE DEF A, B, C
  <2>6. (A \o B) \o C \in Seq(Forward)
    BY <2>5, Sequences
  <2> QED BY <2>5, <2>6 DEF InterfaceSteps, A, B, C, route
<1>3. ASSUME NEW s \in ToSet(c.acme) PROVE AcmeSteps(s) \in Seq(Forward)
  <2> DEFINE A == Given(s.path # None, <<Write(s.path, None, s.version)>>)
             B == <<Only("certbot"), Start(s.unit)>>
  <2>1. s \in Service
    BY ConfigLists, Members
  <2>2. s.unit \in Units /\ s.path \in Paths \cup {None} /\ s.version \in Nat
    BY <2>1 DEF Service
  <2>3. Only("certbot") \in Plain /\ Start(s.unit) \in Plain
        /\ (s.path # None => Write(s.path, None, s.version) \in Plain)
    BY <2>2, PlainSteps
  <2>4. A \in Seq(Plain) /\ B \in Seq(Plain)
    BY <2>3, Sequences
  <2> HIDE DEF A, B
  <2>5. A \o B \in Seq(Plain)
    BY <2>4, Sequences
  <2> QED BY <2>5, PlainIsBoth DEF AcmeSteps, A, B
<1>4. ASSUME NEW t \in ToSet(c.tunnels) PROVE TunnelSteps(t) \in Seq(Forward)
  <2>1. t \in Tunnel
    BY ConfigLists, Members
  <2>2. /\ t.enabled \in BOOLEAN /\ t.creates \in BOOLEAN /\ t.managed \in BOOLEAN
        /\ t.dev \in Links \cup {None} /\ t.under \in Links \cup {None}
        /\ t.unit \in Units \cup {None} /\ t.path \in Paths \cup {None}
        /\ t.version \in Nat /\ t.table \in Nat /\ t.addresses \in Seq(Families)
    BY <2>1 DEF Tunnel
  <2>3. CASE ~t.enabled \/ t.dev = None
    BY <2>3, PlainSteps DEF TunnelSteps
  <2>4. CASE t.enabled /\ t.dev # None
    <3> DEFINE create == Create(t.dev, None, t.under)
               route == InstallRoute([slot |-> TableSlot(t.table), devs |-> {t.dev}, via |-> None])
               A == Given(t.creates, <<create>>)
               B == Given(t.path # None, <<Write(t.path, t.dev, t.version)>>)
               C == Given(t.unit # None, <<Start(t.unit)>>)
               U == <<Simple("up", t.dev)>> \o AddressSteps(t.dev, t.addresses)
               D == Given(~t.managed, U)
               R == Given(t.table > 0, <<route>>)
    <3>1. t.dev \in Links /\ TableSlot(t.table) \in Nat
      BY <2>2, <2>4 DEF TableSlot
    <3>2. /\ create \in Forward /\ route \in Forward /\ Simple("up", t.dev) \in Forward
          /\ (t.path # None => Write(t.path, t.dev, t.version) \in Forward)
          /\ (t.unit # None => Start(t.unit) \in Forward)
      BY <2>2, <3>1, PlainSteps
    <3> HIDE DEF create, route
    <3>3. A \in Seq(Forward) /\ B \in Seq(Forward) /\ C \in Seq(Forward)
      BY <2>2, <3>2, Sequences
    <3>4. R \in Seq(Forward)
      <4>1. (t.table > 0) \in BOOLEAN
        BY <2>2
      <4> QED BY <3>2, <4>1, Sequences
    <3>5. U \in Seq(Forward)
      BY <2>2, <3>1, <3>2, Sequences, AddressesArePlain, PlainIsBoth
    <3> HIDE DEF U
    <3>6. D \in Seq(Forward)
      BY <2>2, <3>5 DEF Given
    <3> HIDE DEF A, B, C, D, R
    <3>7. (((A \o B) \o C) \o D) \o R \in Seq(Forward)
      BY <3>3, <3>4, <3>6, Sequences
    <3> QED BY <2>4, <3>7 DEF TunnelSteps, A, B, C, D, R, U, create, route
  <2> QED BY <2>3, <2>4
<1>5. ASSUME NEW r \in ToSet(c.routes) PROVE RouteSteps(r) \in Seq(Forward)
  <2>1. r \in Route
    BY ConfigLists, Members
  <2>2. r.slot \in Nat /\ r.devs \in SUBSET Links /\ r.via \in Families \cup {None}
    BY <2>1 DEF Route
  <2>3. InstallRoute(r) = InstallRoute([slot |-> r.slot, devs |-> r.devs, via |-> r.via])
    BY DEF InstallRoute
  <2>4. InstallRoute(r) \in Forward
    BY <2>2, <2>3, PlainSteps
  <2> QED BY <2>4, Sequences DEF RouteSteps
<1> QED BY <1>1, <1>2, <1>3, <1>4, <1>5

LEMMA ServicesArePlain ==
  ASSUME NEW c \in Configs, NEW list \in {c.services, c.vrrp, c.frr, c.jobs, c.guards}
  PROVE  ForEach(list, ServiceSteps) \in Seq(Grouping)
<1> DEFINE F == [x \in ToSet(list) |-> ServiceSteps(x)]
<1>1. list \in Seq(Service)
  BY ConfigLists
<1>2. ASSUME NEW x \in ToSet(list) PROVE F[x] \in Seq(Grouping)
  <2> DEFINE A == Profiles(x)
             B == <<Start(x.unit)>>
  <2>1. x \in Service
    BY <1>1, Members
  <2>2. x.unit \in Units /\ x.path \in Paths \cup {None} /\ x.version \in Nat
    BY <2>1 DEF Service
  <2>3. Start(x.unit) \in Plain /\ (x.path # None => Write(x.path, None, x.version) \in Plain)
    BY <2>2, PlainSteps
  <2>4. A \in Seq(Plain) /\ B \in Seq(Plain)
    BY <2>3, Sequences DEF Profiles
  <2> HIDE DEF A, B
  <2>5. A \o B \in Seq(Plain)
    BY <2>4, Sequences
  <2> QED BY <2>5, PlainIsBoth DEF ServiceSteps, A, B
<1>3. ForEach(list, ServiceSteps) = FlattenSeq([i \in DOMAIN list |-> F[list[i]]])
  BY <1>1, Members DEF ForEach
<1> HIDE DEF F
<1> QED BY <1>1, <1>2, <1>3, ListWithin

LEMMA MembersAreGrouping ==
  ASSUME NEW op \in {"enslave", "join", "attach"}, NEW m \in Master
  PROVE  [i \in DOMAIN m.members |-> Under(op, m.members[i], m.name)] \in Seq(Grouping)
<1>1. m.name \in Links /\ m.members \in Seq(Links)
  BY DEF Master
<1>2. DOMAIN m.members = 1 .. Len(m.members) /\ Len(m.members) \in Nat
      /\ \A i \in DOMAIN m.members : m.members[i] \in Links
  BY <1>1, Members
<1>3. \A i \in DOMAIN m.members : Under(op, m.members[i], m.name) \in Grouping
  BY <1>1, <1>2, PlainSteps
<1> QED BY <1>2, <1>3

LEMMA MastersAreGrouping ==
  ASSUME NEW m \in Master
  PROVE  /\ BondSteps(m) \in Seq(Grouping) /\ BridgeSteps(m) \in Seq(Grouping)
         /\ VrfSteps(m) \in Seq(Grouping)
<1> DEFINE A == <<Create(m.name, None, None)>>
           B(op) == [i \in DOMAIN m.members |-> Under(op, m.members[i], m.name)]
           C == <<Simple("up", m.name)>>
           D == <<Create(m.name, None, None), Simple("up", m.name)>>
<1>1. m.name \in Links
  BY DEF Master
<1>2. Create(m.name, None, None) \in Grouping /\ Simple("up", m.name) \in Grouping
  BY <1>1, PlainSteps
<1>3. A \in Seq(Grouping) /\ C \in Seq(Grouping) /\ D \in Seq(Grouping)
  BY <1>2
<1>4. B("enslave") \in Seq(Grouping) /\ B("join") \in Seq(Grouping) /\ B("attach") \in Seq(Grouping)
  BY MembersAreGrouping
<1> HIDE DEF A, B, C, D
<1>5. /\ (A \o B("enslave")) \o C \in Seq(Grouping)
      /\ (A \o B("join")) \o C \in Seq(Grouping)
      /\ D \o B("attach") \in Seq(Grouping)
  BY <1>3, <1>4, Sequences
<1> QED BY <1>5 DEF BondSteps, BridgeSteps, VrfSteps, A, B, C, D

LEMMA PlatformIsGrouping ==
  ASSUME NEW c \in Configs
  PROVE  Platform(c) \in Seq(Grouping)
<1> DEFINE Bo == [x \in ToSet(c.bonds) |-> BondSteps(x)]
           Br == [x \in ToSet(c.bridges) |-> BridgeSteps(x)]
           Vl == [x \in ToSet(c.vlans) |-> VlanSteps(x)]
           Vr == [x \in ToSet(c.vrfs) |-> VrfSteps(x)]
<1>1. /\ c.bonds \in Seq(Master) /\ c.bridges \in Seq(Master) /\ c.vrfs \in Seq(Master)
      /\ c.vlans \in Seq(Vlan) /\ c.mpls \in Seq(Links) /\ c.queues \in Seq(Links)
  BY ConfigLists
<1>2. ForEach(c.bonds, BondSteps) \in Seq(Grouping)
  <2>1. \A x \in ToSet(c.bonds) : Bo[x] \in Seq(Grouping)
    BY <1>1, Members, MastersAreGrouping
  <2>2. ForEach(c.bonds, BondSteps) = FlattenSeq([i \in DOMAIN c.bonds |-> Bo[c.bonds[i]]])
    BY <1>1, Members DEF ForEach
  <2> HIDE DEF Bo
  <2> QED BY <1>1, <2>1, <2>2, ListWithin
<1>3. ForEach(c.bridges, BridgeSteps) \in Seq(Grouping)
  <2>1. \A x \in ToSet(c.bridges) : Br[x] \in Seq(Grouping)
    BY <1>1, Members, MastersAreGrouping
  <2>2. ForEach(c.bridges, BridgeSteps) = FlattenSeq([i \in DOMAIN c.bridges |-> Br[c.bridges[i]]])
    BY <1>1, Members DEF ForEach
  <2> HIDE DEF Br
  <2> QED BY <1>1, <2>1, <2>2, ListWithin
<1>4. ForEach(c.vrfs, VrfSteps) \in Seq(Grouping)
  <2>1. \A x \in ToSet(c.vrfs) : Vr[x] \in Seq(Grouping)
    BY <1>1, Members, MastersAreGrouping
  <2>2. ForEach(c.vrfs, VrfSteps) = FlattenSeq([i \in DOMAIN c.vrfs |-> Vr[c.vrfs[i]]])
    BY <1>1, Members DEF ForEach
  <2> HIDE DEF Vr
  <2> QED BY <1>1, <2>1, <2>2, ListWithin
<1>5. ForEach(c.vlans, VlanSteps) \in Seq(Grouping)
  <2>1. ASSUME NEW v \in ToSet(c.vlans) PROVE Vl[v] \in Seq(Grouping)
    <3> DEFINE A == <<Create(v.name, v.parent, None)>>
               B == AddressSteps(v.name, v.addresses)
               C == <<Simple("up", v.name)>>
    <3>1. v \in Vlan
      BY <1>1, Members
    <3>2. v.name \in Links /\ v.parent \in Links /\ v.addresses \in Seq(Families)
      BY <3>1 DEF Vlan
    <3>3. Create(v.name, v.parent, None) \in Grouping /\ Simple("up", v.name) \in Grouping
      BY <3>2, PlainSteps
    <3>4. A \in Seq(Grouping) /\ B \in Seq(Grouping) /\ C \in Seq(Grouping)
      BY <3>2, <3>3, Sequences, AddressesArePlain, PlainIsBoth
    <3> HIDE DEF A, B, C
    <3>5. (A \o B) \o C \in Seq(Grouping)
      BY <3>4, Sequences
    <3> QED BY <3>5 DEF VlanSteps, A, B, C
  <2>2. ForEach(c.vlans, VlanSteps) = FlattenSeq([i \in DOMAIN c.vlans |-> Vl[c.vlans[i]]])
    BY <1>1, Members DEF ForEach
  <2> HIDE DEF Vl
  <2> QED BY <1>1, <2>1, <2>2, ListWithin
<1> HIDE DEF Bo, Br, Vl, Vr
<1>6. ASSUME NEW list \in Seq(Links) PROVE ForEach(list, TuneSteps) \in Seq(Grouping)
  <2> DEFINE F == [x \in ToSet(list) |-> TuneSteps(x)]
  <2>1. \A x \in ToSet(list) : x \in Links
    BY Members
  <2>2. \A x \in ToSet(list) : Simple("tune", x) \in Grouping
    BY <2>1, PlainSteps
  <2>3. \A x \in ToSet(list) : F[x] \in Seq(Grouping)
    BY <2>2, Sequences DEF TuneSteps
  <2>4. ForEach(list, TuneSteps) = FlattenSeq([i \in DOMAIN list |-> F[list[i]]])
    BY Members DEF ForEach
  <2> HIDE DEF F
  <2> QED BY <2>3, <2>4, ListWithin
<1>7. /\ ForEach(c.mpls, TuneSteps) \in Seq(Grouping) /\ ForEach(c.queues, TuneSteps) \in Seq(Grouping)
      /\ ForEach(c.vrrp, ServiceSteps) \in Seq(Grouping) /\ ForEach(c.frr, ServiceSteps) \in Seq(Grouping)
      /\ ForEach(c.jobs, ServiceSteps) \in Seq(Grouping)
  BY <1>1, <1>6, ServicesArePlain
<1>8. Layer2(c) \in Seq(Grouping)
  BY <1>2, <1>3, <1>5, <1>7, Sequences DEF Layer2
<1>9. DynamicRouting(c) \in Seq(Grouping)
  BY <1>4, <1>7, Sequences DEF DynamicRouting
<1>10. Queues(c) \in Seq(Grouping) /\ Jobs(c) \in Seq(Grouping)
  BY <1>7 DEF Queues, Jobs
<1> QED BY <1>8, <1>9, <1>10, Sequences DEF Platform

LEMMA GroupingAfter ==
  ASSUME NEW s \in RoutesFirst, NEW t \in Seq(Grouping)
  PROVE  s \o t \in RoutesFirst
<1> DEFINE r == s \o t
<1>1. s \in Seq(PlanStep) /\ t \in Seq(PlanStep)
  BY DEF RoutesFirst, Grouping
<1>2. /\ r \in Seq(PlanStep) /\ Len(r) = Len(s) + Len(t)
      /\ \A i \in 1 .. Len(s) : r[i] = s[i]
      /\ \A i \in 1 .. Len(t) : r[Len(s) + i] = t[i]
      /\ Len(s) \in Nat /\ Len(t) \in Nat
  BY <1>1, Concatenation
<1>3. \A i \in 1 .. Len(t) : t[i].op # "route"
  BY DEF Grouping
<1> HIDE DEF r
<1>4. ASSUME NEW i \in 1 .. Len(r), NEW j \in 1 .. Len(r), r[i].op = "route", j < i
      PROVE  r[j] \in Forward
  <2>1. CASE i \in 1 .. Len(s)
    <3>1. j \in 1 .. Len(s)
      BY <1>4, <2>1
    <3> QED BY <1>2, <1>4, <2>1, <3>1 DEF RoutesFirst
  <2>2. CASE i \notin 1 .. Len(s)
    <3>1. i - Len(s) \in 1 .. Len(t) /\ i = Len(s) + (i - Len(s))
      BY <1>2, <2>2
    <3>2. r[i] = t[i - Len(s)]
      BY <1>2, <3>1
    <3> QED BY <1>3, <1>4, <3>1, <3>2
  <2> QED BY <2>1, <2>2
<1> QED BY <1>2, <1>4 DEF RoutesFirst, r

(* No route of a plan comes after a link was given a master, which would   *)
(* cost it the IPv6 address that its gateway needs.                        *)
LEMMA PlanRoutesFirst ==
  ASSUME NEW c \in Configs
  PROVE  Plan(c) \in RoutesFirst
<1> DEFINE A == Given(c.conntrack, <<Only("conntrack")>>)
           I == ForEach(c.interfaces, InterfaceSteps)
           K == ForEach(c.acme, AcmeSteps)
           T == ForEach(c.tunnels, TunnelSteps)
           R == ForEach(c.routes, RouteSteps)
           S == Services(c)
           P == Platform(c)
           G == Security(c)
           L == <<Only("load")>>
           FI == [x \in ToSet(c.interfaces) |-> InterfaceSteps(x)]
           FK == [x \in ToSet(c.acme) |-> AcmeSteps(x)]
           FT == [x \in ToSet(c.tunnels) |-> TunnelSteps(x)]
           FR == [x \in ToSet(c.routes) |-> RouteSteps(x)]
<1>1. /\ c.interfaces \in Seq(Interface) /\ c.acme \in Seq(Service)
      /\ c.tunnels \in Seq(Tunnel) /\ c.routes \in Seq(Route)
  BY ConfigLists
<1>2. A \in Seq(Forward)
  BY FrontIsForward
<1>3. I \in Seq(Forward)
  <2>1. \A x \in ToSet(c.interfaces) : FI[x] \in Seq(Forward)
    BY FrontIsForward
  <2>2. I = FlattenSeq([i \in DOMAIN c.interfaces |-> FI[c.interfaces[i]]])
    BY <1>1, Members DEF ForEach
  <2> HIDE DEF FI, I
  <2> QED BY <1>1, <2>1, <2>2, ListWithin
<1>4. K \in Seq(Forward)
  <2>1. \A x \in ToSet(c.acme) : FK[x] \in Seq(Forward)
    BY FrontIsForward
  <2>2. K = FlattenSeq([i \in DOMAIN c.acme |-> FK[c.acme[i]]])
    BY <1>1, Members DEF ForEach
  <2> HIDE DEF FK, K
  <2> QED BY <1>1, <2>1, <2>2, ListWithin
<1>5. T \in Seq(Forward)
  <2>1. \A x \in ToSet(c.tunnels) : FT[x] \in Seq(Forward)
    BY FrontIsForward
  <2>2. T = FlattenSeq([i \in DOMAIN c.tunnels |-> FT[c.tunnels[i]]])
    BY <1>1, Members DEF ForEach
  <2> HIDE DEF FT, T
  <2> QED BY <1>1, <2>1, <2>2, ListWithin
<1>6. R \in Seq(Forward)
  <2>1. \A x \in ToSet(c.routes) : FR[x] \in Seq(Forward)
    BY FrontIsForward
  <2>2. R = FlattenSeq([i \in DOMAIN c.routes |-> FR[c.routes[i]]])
    BY <1>1, Members DEF ForEach
  <2> HIDE DEF FR, R
  <2> QED BY <1>1, <2>1, <2>2, ListWithin
<1>7. S \in Seq(Grouping)
  <2>1. Start(Frr) \in Grouping
    BY PlainSteps, NameAssumption
  <2>2. Given(c.mpls # <<>>, <<Start(Frr)>>) \in Seq(Grouping)
    BY <2>1, Sequences
  <2>3. ForEach(c.services, ServiceSteps) \in Seq(Grouping)
    BY ServicesArePlain
  <2> QED BY <2>2, <2>3, Sequences DEF Services
<1>8. P \in Seq(Grouping) /\ G \in Seq(Grouping)
  BY PlatformIsGrouping, ServicesArePlain DEF Security
<1>9. L \in Seq(Grouping)
  BY PlainSteps, Sequences
<1> HIDE DEF A, I, K, T, R, S, P, G, L, FI, FK, FT, FR
<1> DEFINE Opening == (((A \o I) \o K) \o T) \o R
<1>10. Opening \in Seq(Forward)
  BY <1>2, <1>3, <1>4, <1>5, <1>6, Sequences
<1> HIDE DEF Opening
<1>11. Opening \in RoutesFirst
  BY <1>10 DEF RoutesFirst, Forward
<1>12. (((Opening \o S) \o P) \o G) \o L \in RoutesFirst
  BY <1>7, <1>8, <1>9, <1>11, GroupingAfter
<1> QED BY <1>12 DEF Plan, Opening, A, I, K, T, R, S, P, G, L

=============================================================================
