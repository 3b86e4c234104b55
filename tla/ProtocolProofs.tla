--------------------------- MODULE ProtocolProofs ---------------------------
(***************************************************************************)
(* That the checks of a request decide what they should, for inputs of     *)
(* every length.  The inputs grow step by step, so each theorem rests on a *)
(* type invariant and then on what the functions return for every typed    *)
(* input.                                                                  *)
(*                                                                         *)
(* Names: segment[i] is -1 exactly when the first i bytes are not the      *)
(* beginning of a path (Says).  Bodies: readObject's chain of refusals     *)
(* becomes one condition, under which Decoded and a reader that takes the  *)
(* first member agree.  Texts: the scan of validJSONUnicode is described   *)
(* by the positions from which it accepts (Accepts); going back from the   *)
(* end item by item, these positions and the property's own condition      *)
(* (Fine) satisfy the same recursion.                                      *)
(*                                                                         *)
(* What the recursive functions compute is proved by looking at a least    *)
(* counterexample (Least), which takes the place of induction.             *)
(***************************************************************************)
EXTENDS Protocol, WellFoundedInduction, FiniteSetTheorems, SequenceTheorems, TLAPS

USE ProtocolAssumption

AnyMember == DataMembers \cup UserMembers \cup TokenMembers

\* The bytes of the names.
Bytes == NameBytes \cup {"/", "A"}

\* The bytes of the names, one by one.
LEMMA SomeBytes ==
  /\ "a" \in Bytes /\ "/" \in Bytes /\ "A" \in Bytes /\ "underscore" \in Bytes
  /\ "m" \in Bytes /\ "e" \in Bytes /\ "t" \in Bytes
  BY DEF Bytes, NameBytes

\* _meta is a name.
LEMMA MetaSeq == Meta \in Seq(Bytes)
  BY SomeBytes DEF Meta

\* Its length, which reservedCollection compares with.
LEMMA MetaLen == Len(Meta) = 5
  BY DEF Meta

\* The types of the inputs other than texts.
TypeInv ==
  /\ name \in Seq(Bytes)
  /\ body \in [env : Envelopes, members : Seq(AnyMember)]
  /\ call \subseteq Calls

\* The first input is typed.
LEMMA TypeInit == Init => TypeInv
  <1>1. Plain \in Envelopes /\ <<>> \in Seq(AnyMember)
    BY DEF Envelopes
  <1>2. QED
    BY <1>1 DEF Init, TypeInv, NoBody

\* Each step leaves the inputs typed.
LEMMA TypeStep == TypeInv /\ [Next]_vars => TypeInv'
  <1> SUFFICES ASSUME TypeInv, [Next]_vars PROVE TypeInv'
    OBVIOUS
  <1>1. CASE GrowName
    <2>1. PICK piece \in NamePieces : name' = name \o piece
      BY <1>1 DEF GrowName
    <2>2. piece \in Seq(Bytes)
      <3>1. <<"a">> \in Seq(Bytes) /\ <<"/">> \in Seq(Bytes) /\ <<"A">> \in Seq(Bytes)
        BY SomeBytes
      <3>2. QED
        BY <3>1, MetaSeq DEF NamePieces
    <2>3. QED
      BY <1>1, <2>1, <2>2 DEF GrowName, TypeInv
  <1>2. CASE GrowBody
    <2>1. PICK m \in AnyMember : body' = [body EXCEPT !.members = Append(@, m)]
      BY <1>2 DEF GrowBody, AnyMember
    <2>2. body.env \in Envelopes /\ body.members \in Seq(AnyMember)
      BY DEF TypeInv
    <2>3. Append(body.members, m) \in Seq(AnyMember)
      BY <2>2
    <2>4. body' = [env |-> body.env, members |-> Append(body.members, m)]
      BY <2>1 DEF TypeInv
    <2>5. body' \in [env : Envelopes, members : Seq(AnyMember)]
      <3> DEFINE more == Append(body.members, m)
                 env == body.env
      <3>1. more \in Seq(AnyMember) /\ env \in Envelopes /\ body' = [env |-> env, members |-> more]
        BY <2>2, <2>3, <2>4
      <3> HIDE DEF more, env
      <3>2. QED
        BY <3>1
    <2>6. name' = name /\ call' = call
      BY <1>2 DEF GrowBody
    <2>7. QED
      BY <2>5, <2>6 DEF TypeInv
  <1>3. CASE SendBody
    BY <1>3 DEF SendBody, TypeInv
  <1>4. CASE Request
    BY <1>4 DEF Request, TypeInv
  <1>5. CASE GrowText
    BY <1>5 DEF GrowText, TypeInv
  <1>6. CASE UNCHANGED vars
    BY <1>6 DEF vars, TypeInv
  <1>7. QED
    BY <1>1, <1>2, <1>3, <1>4, <1>5, <1>6 DEF Next

\* Every name, body and call that a step can make is one of the inputs that
\* the lemmas below are about; for the texts see WellPlaced.
THEOREM TypesHold == Spec => []TypeInv
  BY TypeInit, TypeStep, PTL DEF Spec

\* The health check is not below /v1.
LEMMA V1Apart == "/healthz" \notin V1Paths
  BY DEF V1Paths, Routes, Route

\* What ServeHTTP answers without a valid credential: it never gets to the
\* route, the method, the query or the body.
LEMMA Turned ==
  ASSUME NEW c \in Calls, ~c.noAuth, c.header \notin Roles, c.path \in V1Paths
  PROVE  ServeHTTP(c) = IF c.down THEN "unavailable"
                        ELSE IF c.header = "absent" THEN "authentication_required"
                        ELSE "invalid_token"
  <1>1. c.path # "/healthz"
    BY V1Apart
  <1>2. "authentication_required" \notin Roles /\ "invalid_token" \notin Roles
    BY DEF Roles
  <1>3. QED
    BY <1>1, <1>2 DEF ServeHTTP, authenticateRequest

\* ServeHTTP authenticates before it looks the route up, so a client without
\* a valid credential gets the same refusal for everything below /v1.
THEOREM NoProbeHolds == Spec => []NoProbe
  <1>1. TypeInv => NoProbe
    <2> SUFFICES ASSUME TypeInv, NEW c \in call,
                        ~c.noAuth, c.header \notin Roles, c.path \in V1Paths
                 PROVE  /\ ServeHTTP(c) # "ok"
                        /\ \A p \in V1Paths, m \in {"GET", "POST"}, q, b \in BOOLEAN :
                             ServeHTTP([c EXCEPT !.path = p, !.method = m, !.query = q, !.content = b])
                               = ServeHTTP(c)
      BY DEF NoProbe
    <2>1. c \in Calls
      BY DEF TypeInv
    <2>2. ServeHTTP(c) # "ok"
      BY <2>1, Turned
    <2>3. ASSUME NEW p \in V1Paths, NEW m \in {"GET", "POST"}, NEW q \in BOOLEAN, NEW b \in BOOLEAN
          PROVE  ServeHTTP([c EXCEPT !.path = p, !.method = m, !.query = q, !.content = b])
                   = ServeHTTP(c)
      <3> DEFINE d == [c EXCEPT !.path = p, !.method = m, !.query = q, !.content = b]
      <3>1. d \in Calls /\ d.path = p /\ d.noAuth = c.noAuth /\ d.header = c.header /\ d.down = c.down
        BY <2>1 DEF Calls
      <3> HIDE DEF d
      <3>2. ServeHTTP(d) = ServeHTTP(c)
        BY <2>1, <3>1, Turned
      <3>3. QED
        BY <3>2 DEF d
    <2>4. QED
      BY <2>2, <2>3
  <1>2. QED
    BY <1>1, TypesHold, PTL

-----------------------------------------------------------------------------
(* Names *)

\* A set of naturals that is not empty has a least element.
LEMMA Least ==
  ASSUME NEW T \in SUBSET Nat, T # {}
  PROVE  \E x \in T : \A y \in T : x <= y
  <1> DEFINE R == OpToRel(<, Nat)
  <1>1. \A x, y \in Nat : y < x => <<y, x>> \in R
    BY DEF OpToRel
  <1>2. IsWellFoundedOn(R, Nat)
    BY NatLessThanWellFounded
  <1> HIDE DEF R
  <1>3. PICK x \in T : \A y \in T : <<y, x>> \notin R
    BY <1>2, WFMin
  <1>4. ASSUME NEW y \in T PROVE x <= y
    <2>1. ~(y < x)
      BY <1>1, <1>3
    <2>2. QED
      BY <2>1
  <1>5. QED
    BY <1>4

\* One round of the loop.
Round(segment, c) ==
  IF segment = -1 THEN -1
  ELSE IF c = "/" THEN (IF segment = 0 THEN -1 ELSE 0)
  ELSE IF c \in NameBytes THEN segment + 1 ELSE -1

\* f holds the values of segment up to m.
Counts(n, f, m) ==
  /\ f \in [0..m -> Int]
  /\ f[0] = 0
  /\ \A i \in 1..m : f[i] = Round(f[i - 1], n[i])

\* The loop of the name checks has a run over every name.
LEMMA CountsExist ==
  ASSUME NEW S, NEW n \in Seq(S)
  PROVE  \E f : Counts(n, f, Len(n))
  <1> DEFINE T == {m \in 0..Len(n) : ~ \E f : Counts(n, f, m)}
  <1>1. SUFFICES T = {}
    <2>1. Len(n) \in 0..Len(n)
      OBVIOUS
    <2>2. QED
      BY <2>1 DEF T
  <1>2. SUFFICES ASSUME T # {} PROVE FALSE
    OBVIOUS
  <1>3. T \subseteq Nat
    OBVIOUS
  <1> HIDE DEF T
  <1>4. PICK m \in T : \A y \in T : m <= y
    BY <1>2, <1>3, Least
  <1>5. m \in 0..Len(n) /\ ~ \E f : Counts(n, f, m)
    BY DEF T
  <1>6. CASE m = 0
    <2>1. Counts(n, [i \in 0..0 |-> 0], 0)
      BY DEF Counts
    <2>2. QED
      BY <1>5, <1>6, <2>1
  <1>7. CASE m # 0
    <2>1. m - 1 \in 0..Len(n) /\ m - 1 \notin T
      BY <1>3, <1>4, <1>5, <1>7
    <2>2. PICK f : Counts(n, f, m - 1)
      BY <2>1 DEF T
    <2> DEFINE g == [i \in 0..m |-> IF i = m THEN Round(f[m - 1], n[m]) ELSE f[i]]
    <2>3. Counts(n, g, m)
      <3>1. f \in [0..(m - 1) -> Int] /\ f[0] = 0 /\ \A i \in 1..(m - 1) : f[i] = Round(f[i - 1], n[i])
        BY <2>2 DEF Counts
      <3>2. Round(f[m - 1], n[m]) \in Int
        BY <1>5, <1>7, <3>1 DEF Round
      <3>3. \A i \in 0..(m - 1) : g[i] = f[i]
        BY <1>5
      <3>4. g[m] = Round(f[m - 1], n[m])
        BY <1>5
      <3>5. g \in [0..m -> Int]
        BY <1>5, <3>1, <3>2
      <3> HIDE DEF g
      <3>6. g[0] = 0
        BY <1>5, <1>7, <3>1, <3>3
      <3>7. ASSUME NEW i \in 1..m PROVE g[i] = Round(g[i - 1], n[i])
        <4>1. i - 1 \in 0..(m - 1) /\ g[i - 1] = f[i - 1]
          BY <1>5, <3>3
        <4>2. CASE i = m
          BY <3>4, <4>1, <4>2
        <4>3. CASE i # m
          BY <1>5, <3>1, <3>3, <4>1, <4>3, SMTT(60)
        <4>4. QED
          BY <4>2, <4>3
      <3>8. QED
        BY <3>5, <3>6, <3>7 DEF Counts
    <2>4. QED
      BY <1>5, <2>3
  <1>8. QED
    BY <1>6, <1>7

\* What either loop leaves: the length of the last segment, or -1.
LastSegment(n) ==
  LET segment[i \in 0..Len(n)] ==
        IF i = 0 THEN 0
        ELSE IF segment[i - 1] = -1 THEN -1
        ELSE IF n[i] = "/" THEN (IF segment[i - 1] = 0 THEN -1 ELSE 0)
        ELSE IF n[i] \in NameBytes THEN segment[i - 1] + 1 ELSE -1
  IN segment[Len(n)]

\* The library's loop, and the server's.
LEMMA LibraryLoop ==
  ASSUME NEW S, NEW n \in Seq(S)
  PROVE  validName(n) <=> Len(n) <= maxNameLen /\ LastSegment(n) > 0
  BY DEF validName, LastSegment

LEMMA ServerLoop ==
  ASSUME NEW S, NEW n \in Seq(S)
  PROVE  validCollectionName(n) <=>
           Len(n) # 0 /\ Len(n) <= maxNameLen /\ LastSegment(n) > 0
  BY DEF validCollectionName, LastSegment

\* LastSegment counts what the loops count.
LEMMA LastSegmentCounts ==
  ASSUME NEW S, NEW n \in Seq(S)
  PROVE  \E f : Counts(n, f, Len(n)) /\ LastSegment(n) = f[Len(n)]
  <1> DEFINE G(g) == [i \in 0..Len(n) |->
                        IF i = 0 THEN 0
                        ELSE IF g[i - 1] = -1 THEN -1
                        ELSE IF n[i] = "/" THEN (IF g[i - 1] = 0 THEN -1 ELSE 0)
                        ELSE IF n[i] \in NameBytes THEN g[i - 1] + 1 ELSE -1]
             F == CHOOSE g : g = G(g)
  <1>1. PICK f : Counts(n, f, Len(n))
    BY CountsExist
  <1>2. f = G(f)
    <2>1. Len(n) \in Nat
      OBVIOUS
    <2>2. f = [i \in 0..Len(n) |-> f[i]]
      BY <1>1 DEF Counts
    <2>3. ASSUME NEW i \in 0..Len(n) PROVE f[i] = G(f)[i]
      BY <1>1, <2>1, SMTT(60) DEF Counts, Round
    <2>4. QED
      BY <2>2, <2>3
  <1>3. F = G(F)
    BY <1>2
  <1>4. LastSegment(n) = F[Len(n)]
    BY DEF LastSegment
  <1> HIDE DEF F
  <1>5. Counts(n, F, Len(n))
    <2>1. Len(n) \in Nat
      OBVIOUS
    <2>2. /\ DOMAIN F = 0..Len(n) /\ F = [i \in 0..Len(n) |-> F[i]]
          /\ F[0] = 0 /\ \A i \in 1..Len(n) : F[i] = Round(F[i - 1], n[i])
      <3>1. \A i \in 1..Len(n) : G(F)[i] = Round(F[i - 1], n[i])
        BY <2>1 DEF Round
      <3>2. G(F)[0] = 0 /\ DOMAIN G(F) = 0..Len(n) /\ G(F) = [i \in 0..Len(n) |-> G(F)[i]]
        BY <2>1
      <3> HIDE DEF G
      <3>3. QED
        BY <1>3, <3>1, <3>2
    <2> DEFINE T == {i \in 0..Len(n) : F[i] \notin Int}
    <2>3. T \subseteq Nat
      OBVIOUS
    <2>4. T = {}
      <3>1. SUFFICES ASSUME T # {} PROVE FALSE
        OBVIOUS
      <3> HIDE DEF T
      <3>2. PICK m \in T : \A y \in T : m <= y
        BY <2>3, <3>1, Least
      <3>3. m \in 0..Len(n) /\ F[m] \notin Int
        BY DEF T
      <3>4. m \in 1..Len(n)
        BY <2>1, <2>2, <3>3
      <3>5. F[m - 1] \in Int
        <4>1. m - 1 \in 0..Len(n) /\ ~(m <= m - 1)
          BY <2>1, <3>4
        <4>2. QED
          BY <3>2, <4>1 DEF T
      <3>6. Round(F[m - 1], n[m]) \in Int
        BY <3>5 DEF Round
      <3>7. QED
        BY <2>2, <3>3, <3>4, <3>6
    <2>5. F \in [0..Len(n) -> Int]
      BY <2>2, <2>4
    <2>6. QED
      BY <2>2, <2>5 DEF Counts
  <1>6. QED
    BY <1>4, <1>5

\* The first i bytes are of the alphabet and no slash follows another or is
\* the first.
Sound(n, i) ==
  \A j \in 1..i : /\ n[j] \in NameBytes \cup {"/"}
                  /\ n[j] = "/" => j # 1 /\ n[j - 1] # "/"

\* The value of segment says whether the bytes so far are sound and whether a
\* segment has begun.
Says(n, v, i) ==
  /\ v >= -1
  /\ v = -1 <=> ~Sound(n, i)
  /\ v = 0 => i = 0 \/ n[i] = "/"
  /\ v > 0 => i > 0 /\ n[i] # "/"

\* One round of the loop keeps what the length of the segment says.
LEMMA RoundSays ==
  ASSUME NEW S, NEW n \in Seq(S), NEW v \in Int, NEW i \in 1..Len(n), Says(n, v, i - 1)
  PROVE  Says(n, Round(v, n[i]), i)
  <1>1. Sound(n, i) <=> /\ Sound(n, i - 1) /\ n[i] \in NameBytes \cup {"/"}
                        /\ n[i] = "/" => i # 1 /\ n[i - 1] # "/"
    <2>1. 1..i = (1..(i - 1)) \cup {i}
      OBVIOUS
    <2>2. QED
      BY <2>1 DEF Sound
  <1>2. "/" \notin NameBytes
    BY DEF NameBytes
  <1>3. CASE v = -1
    BY <1>1, <1>3 DEF Says, Round
  <1>4. CASE v # -1 /\ n[i] = "/"
    BY <1>1, <1>4 DEF Says, Round
  <1>5. CASE v # -1 /\ n[i] # "/"
    BY <1>1, <1>2, <1>5 DEF Says, Round
  <1>6. QED
    BY <1>3, <1>4, <1>5

\* What the loop of validName and of validCollectionName computes.
LEMMA LastSegmentSays ==
  ASSUME NEW S, NEW n \in Seq(S)
  PROVE  LastSegment(n) \in Int /\ Says(n, LastSegment(n), Len(n))
  <1>1. PICK f : Counts(n, f, Len(n)) /\ LastSegment(n) = f[Len(n)]
    BY LastSegmentCounts
  <1>2. Len(n) \in Nat
    OBVIOUS
  <1> DEFINE T == {i \in 0..Len(n) : ~Says(n, f[i], i)}
  <1>3. T \subseteq Nat
    OBVIOUS
  <1>4. T = {}
    <2>1. SUFFICES ASSUME T # {} PROVE FALSE
      OBVIOUS
    <2> HIDE DEF T
    <2>2. PICK m \in T : \A y \in T : m <= y
      BY <1>3, <2>1, Least
    <2>3. m \in 0..Len(n) /\ ~Says(n, f[m], m)
      BY DEF T
    <2>4. Says(n, f[0], 0)
      BY <1>1 DEF Counts, Says, Sound
    <2>5. m \in 1..Len(n)
      BY <1>2, <2>3, <2>4
    <2>6. m - 1 \in 0..Len(n) /\ ~(m <= m - 1)
      BY <1>2, <2>5
    <2>7. Says(n, f[m - 1], m - 1) /\ f[m - 1] \in Int
      BY <1>1, <2>2, <2>6 DEF T, Counts
    <2>8. f[m] = Round(f[m - 1], n[m])
      BY <1>1, <2>5 DEF Counts
    <2>9. QED
      BY <2>3, <2>5, <2>7, <2>8, RoundSays
  <1>5. Len(n) \in 0..Len(n)
    BY <1>2
  <1>6. f[Len(n)] \in Int
    BY <1>1, <1>5 DEF Counts
  <1>7. QED
    BY <1>1, <1>4, <1>5, <1>6

\* The check of the server accepts the paths, and only those.
LEMMA NamesArePaths ==
  ASSUME NEW S, NEW n \in Seq(S)
  PROVE  validCollectionName(n) <=> IsPath(n)
  <1>1. LastSegment(n) \in Int /\ Says(n, LastSegment(n), Len(n)) /\ Len(n) \in Nat
    BY LastSegmentSays
  <1>2. ASSUME validCollectionName(n) PROVE IsPath(n)
    <2>1. Len(n) \in 1..maxNameLen /\ Sound(n, Len(n)) /\ n[Len(n)] # "/"
      BY <1>1, <1>2, ServerLoop DEF Says
    <2>2. ToSet(n) \subseteq NameBytes \cup {"/"}
      BY <2>1 DEF ToSet, Sound
    <2>3. n[1] # "/"
      BY <2>1 DEF Sound
    <2>4. \A i \in 2..Len(n) : n[i - 1] = "/" => n[i] # "/"
      BY <2>1 DEF Sound
    <2>5. QED
      BY <2>1, <2>2, <2>3, <2>4 DEF IsPath
  <1>3. ASSUME IsPath(n) PROVE validCollectionName(n)
    <2>1. Len(n) \in 1..maxNameLen /\ n[1] # "/" /\ n[Len(n)] # "/"
      BY <1>3 DEF IsPath
    <2>2. \A j \in 1..Len(n) : n[j] \in NameBytes \cup {"/"}
      BY <1>3 DEF IsPath, ToSet
    <2>3. \A j \in 1..Len(n) : n[j] = "/" => j # 1 /\ n[j - 1] # "/"
      BY <1>1, <1>3 DEF IsPath
    <2>4. Sound(n, Len(n))
      BY <2>2, <2>3 DEF Sound
    <2>5. QED
      BY <1>1, <2>1, <2>4, ServerLoop DEF Says
  <1>4. QED
    BY <1>2, <1>3

\* The two tests of reservedCollection are one: the first segment is _meta.
LEMMA ReservedIsMeta ==
  ASSUME NEW n \in Seq(Bytes)
  PROVE  reservedCollection(n) <=> InMeta(n)
  <1>1. Len(Meta) = 5 /\ Meta \in Seq(Bytes) /\ Len(n) \in Nat
    BY MetaSeq, MetaLen
  <1> DEFINE P == Append(Meta, "/")
  <1>2. P \in Seq(Bytes) /\ Len(P) = 6 /\ P[6] = "/" /\ \A i \in 1..5 : P[i] = Meta[i]
    <2>1. /\ P \in Seq(Bytes) /\ Len(P) = Len(Meta) + 1 /\ P[Len(Meta) + 1] = "/"
          /\ \A i \in 1..Len(Meta) : P[i] = Meta[i]
      BY MetaSeq, SomeBytes, AppendProperties
    <2> HIDE DEF P
    <2>2. QED
      BY <2>1, MetaLen
  <1> HIDE DEF P
  <1>3. SubSeq(P, 1, 6) = P
    BY <1>2
  <1>4. \A k \in 1..Len(n) : Len(SubSeq(n, 1, k)) = k /\ SubSeq(n, 1, k) \in Seq(Bytes)
                             /\ \A i \in 1..k : SubSeq(n, 1, k)[i] = n[i]
    BY <1>1
  <1>5. ASSUME n = Meta PROVE InMeta(n)
    <2>1. SubSeq(n, 1, 5) = Meta
      BY <1>1, <1>5
    <2>2. QED
      <3>1. Len(n) = 5
        BY <1>5, MetaLen
      <3>2. 5 \in 1..Len(n) /\ ~(5 < Len(n))
        BY <3>1
      <3>3. QED
        BY <2>1, <3>2 DEF InMeta
  <1>6. ASSUME IsPrefix(P, n) PROVE InMeta(n)
    <2>1. 6 <= Len(n) /\ P = SubSeq(n, 1, 6)
      BY <1>2, <1>3, <1>6 DEF IsPrefix
    <2>2. n[6] = "/" /\ \A i \in 1..5 : n[i] = Meta[i]
      BY <1>1, <1>2, <1>4, <2>1
    <2>3. SubSeq(n, 1, 5) = Meta
      BY <1>1, <1>4, <2>1, <2>2, SeqEqual
    <2>4. QED
      <3>1. 5 \in 1..Len(n) /\ n[5 + 1] = "/"
        BY <1>1, <2>1, <2>2
      <3>2. QED
        BY <2>3, <3>1 DEF InMeta
  <1>7. ASSUME InMeta(n) PROVE n = Meta \/ IsPrefix(P, n)
    <2>1. PICK k \in 1..Len(n) : SubSeq(n, 1, k) = Meta /\ (k < Len(n) => n[k + 1] = "/")
      BY <1>7 DEF InMeta
    <2>2. k = 5
      BY <1>1, <1>4, <2>1
    <2>3. CASE Len(n) = 5
      BY <1>1, <2>1, <2>2, <2>3
    <2>4. CASE Len(n) # 5
      <3>1. 6 <= Len(n) /\ n[6] = "/" /\ 6 \in 1..Len(n)
        BY <1>1, <2>1, <2>2, <2>4
      <3>2. \A i \in 1..6 : SubSeq(n, 1, 6)[i] = P[i]
        BY <1>1, <1>2, <1>4, <2>1, <2>2, <3>1
      <3>3. SubSeq(n, 1, 6) = P
        BY <1>2, <1>4, <3>1, <3>2, SeqEqual
      <3>4. QED
        BY <1>2, <1>3, <3>1, <3>3 DEF IsPrefix
    <2>5. QED
      BY <2>3, <2>4
  <1>8. QED
    BY <1>5, <1>6, <1>7 DEF reservedCollection, P

\* For names of every length: collectionTarget accepts exactly the paths
\* outside _meta, and validName, on whose word medb.C panics, accepts those.
THEOREM TargetsExactHolds == Spec => []TargetsExact
  <1>1. TypeInv => TargetsExact
    <2> SUFFICES ASSUME TypeInv PROVE TargetsExact
      OBVIOUS
    <2> DEFINE fields == [collection |-> Str(name)]
               t == collectionTarget(fields)
    <2>1. name \in Seq(Bytes)
      BY DEF TypeInv
    <2>2. stringField(fields, "collection") = [ok |-> TRUE, value |-> Str(name)]
      BY DEF stringField, isJSONNull, Null, Str, Unmarshals
    <2>3. t = IF ~validCollectionName(name) THEN Fail("invalid_collection")
              ELSE IF reservedCollection(name) THEN Fail("reserved_collection")
              ELSE [ok |-> TRUE, collection |-> name]
      <3>1. Str(name).s = name
        BY DEF Str
      <3> DEFINE c == stringField(fields, "collection")
      <3>2. c.ok = TRUE /\ c.value.s = name
        BY <2>2, <3>1
      <3>3. QED
        BY <3>2 DEF collectionTarget
    <2>4. t.ok <=> validCollectionName(name) /\ ~reservedCollection(name)
      BY <2>3 DEF Fail
    <2>5. t.ok => t.collection = name
      BY <2>3 DEF Fail
    <2>6. validCollectionName(name) => validName(name)
      BY <2>1, LibraryLoop, ServerLoop
    <2> HIDE DEF t
    <2>7. t.ok <=> IsPath(name) /\ ~InMeta(name)
      BY <2>1, <2>4, NamesArePaths, ReservedIsMeta
    <2>8. QED
      BY <2>4, <2>5, <2>6, <2>7 DEF TargetsExact, t
  <1>2. QED
    BY <1>1, TypesHold, PTL

-----------------------------------------------------------------------------
(* Bodies *)

\* The least element of a set of numbers is in it.
LEMMA MinIn ==
  ASSUME NEW T \in SUBSET Nat, T # {}
  PROVE  Min(T) \in T /\ \A y \in T : Min(T) <= y
  BY Least DEF Min

\* A chain of checks passes when none of them fails.
LEMMA FirstOfOk ==
  ASSUME NEW checks, Len(checks) \in Nat, \A i \in 1..Len(checks) : checks[i][2] # "ok"
  PROVE  FirstOf(checks) = "ok" <=> \A i \in 1..Len(checks) : ~checks[i][1]
  <1> DEFINE I == {i \in 1..Len(checks) : checks[i][1]}
  <1>1. I # {} => Min(I) \in I /\ Min(I) \in 1..Len(checks) /\ Min(I) # 0
    <2>1. I \in SUBSET Nat /\ I \subseteq 1..Len(checks) /\ 0 \notin I
      OBVIOUS
    <2> HIDE DEF I
    <2>2. QED
      BY <2>1, MinIn
  <1>2. SelectInSeq(checks, LAMBDA c : c[1]) = IF I # {} THEN Min(I) ELSE 0
    BY DEF SelectInSeq
  <1>3. FirstOf(checks) = IF I # {} THEN checks[Min(I)][2] ELSE "ok"
    BY <1>1, <1>2 DEF FirstOf
  <1>4. QED
    BY <1>1, <1>3

\* A body whose members have different names has as many names as members.
LEMMA NoRepeatsCount ==
  ASSUME NEW S, NEW ms \in Seq(S)
  PROVE  Cardinality(Names(ms)) = Len(ms) <=> NoRepeats(ms)
  <1> DEFINE f == [i \in 1..Len(ms) |-> ms[i].name]
  <1>1. Len(ms) \in Nat /\ DOMAIN ms = 1..Len(ms)
    OBVIOUS
  <1>2. IsFiniteSet(1..Len(ms)) /\ Cardinality(1..Len(ms)) = Len(ms)
    BY <1>1, FS_Interval, SMTT(60)
  <1>3. f \in Surjection(1..Len(ms), Names(ms))
    BY <1>1 DEF Surjection, Names
  <1>4. IsFiniteSet(Names(ms)) /\ Cardinality(Names(ms)) <= Cardinality(1..Len(ms))
         /\ (Cardinality(Names(ms)) = Cardinality(1..Len(ms)) <=> f \in Injection(1..Len(ms), Names(ms)))
    BY <1>2, <1>3, FS_Surjection
  <1>5. f \in Injection(1..Len(ms), Names(ms)) <=> NoRepeats(ms)
    BY <1>1, <1>3 DEF Injection, IsInjective, Surjection, NoRepeats
  <1>6. QED
    BY <1>2, <1>4, <1>5

\* Of the envelopes only Plain passes the first three checks.
LEMMA EnvelopesPass ==
  ASSUME NEW env \in Envelopes
  PROVE  \/ env = Plain /\ ~env.encoded /\ env.media = "json" /\ env.length = maxRequestSize
             /\ env.size = maxRequestSize /\ env.wellFormed /\ env.object
         \/ env # Plain /\ (env.encoded \/ env.media # "json" \/ env.size > maxRequestSize
             \/ env.size = 0 \/ ~env.wellFormed \/ ~env.object)
  <1>1. CASE env = Plain
    BY <1>1 DEF Plain
  <1>2. CASE env = [Plain EXCEPT !.encoded = TRUE]
    BY <1>2 DEF Plain
  <1>3. CASE env = [Plain EXCEPT !.media = "other"]
    BY <1>3 DEF Plain
  <1>4. CASE env = [Plain EXCEPT !.length = maxRequestSize + 1, !.size = maxRequestSize + 1]
    <2>1. env.size = maxRequestSize + 1 /\ Plain.size = maxRequestSize
      BY <1>4 DEF Plain
    <2>2. QED
      BY <2>1
  <1>5. CASE env = [Plain EXCEPT !.length = -1, !.size = maxRequestSize + 1]
    <2>1. env.size = maxRequestSize + 1 /\ Plain.size = maxRequestSize
      BY <1>5 DEF Plain
    <2>2. QED
      BY <2>1
  <1>6. CASE env = [Plain EXCEPT !.length = 0, !.size = 0]
    BY <1>6 DEF Plain
  <1>7. CASE env = [Plain EXCEPT !.wellFormed = FALSE]
    BY <1>7 DEF Plain
  <1>8. CASE env = [Plain EXCEPT !.object = FALSE]
    BY <1>8 DEF Plain
  <1>9. QED
    BY <1>1, <1>2, <1>3, <1>4, <1>5, <1>6, <1>7, <1>8 DEF Envelopes

\* readObject accepts a body exactly when it arrives as it should and has
\* each member once, all the required ones and no others.
LEMMA ReadObjectOk ==
  ASSUME NEW S, NEW r \in [env : Envelopes, members : Seq(S)], NEW allowed, NEW required
  PROVE  /\ readObject(r, allowed, required).ok <=>
              (/\ r.env = Plain /\ NoRepeats(r.members)
               /\ Names(r.members) \subseteq allowed /\ required \subseteq Names(r.members))
         /\ readObject(r, allowed, required).ok =>
               readObject(r, allowed, required).fields = Decoded(r.members)
  <1> DEFINE env == r.env
             names == Names(r.members)
             c1 == env.encoded \/ env.media # "json"
             c2 == env.length > maxRequestSize \/ env.size > maxRequestSize
             c3 == env.size = 0 \/ ~env.wellFormed \/ ~env.object
             c4 == Cardinality(names) # Len(r.members)
             c5 == ~(names \subseteq allowed)
             c6 == ~(required \subseteq names)
             checks == << <<c1, "media_type">>, <<c2, "request_too_large">>, <<c3, "invalid_json">>,
                          <<c4, "invalid_request">>, <<c5, "invalid_request">>, <<c6, "invalid_request">> >>
  <1>1. readObject(r, allowed, required) =
          IF FirstOf(checks) = "ok" THEN [ok |-> TRUE, fields |-> Decoded(r.members)] ELSE Fail(FirstOf(checks))
    BY DEF readObject
  <1>2. (~c1 /\ ~c2 /\ ~c3) <=> env = Plain
    BY EnvelopesPass
  <1>3. ~c4 <=> NoRepeats(r.members)
    BY NoRepeatsCount
  <1> HIDE DEF c1, c2, c3, c4, c5, c6
  <1>4. Len(checks) = 6 /\ Len(checks) \in Nat
    OBVIOUS
  <1>5. \A i \in 1..6 : checks[i][2] # "ok"
    OBVIOUS
  <1>6. (\A i \in 1..6 : ~checks[i][1]) <=> ~c1 /\ ~c2 /\ ~c3 /\ ~c4 /\ ~c5 /\ ~c6
    OBVIOUS
  <1>7. FirstOf(checks) = "ok" <=> ~c1 /\ ~c2 /\ ~c3 /\ ~c4 /\ ~c5 /\ ~c6
    <2> HIDE DEF checks
    <2>1. QED
      BY <1>4, <1>5, <1>6, FirstOfOk
  <1> HIDE DEF checks
  <1>8. CASE FirstOf(checks) = "ok"
    BY <1>1, <1>2, <1>3, <1>7, <1>8 DEF c5, c6
  <1>9. CASE FirstOf(checks) # "ok"
    BY <1>1, <1>2, <1>3, <1>7, <1>9 DEF c5, c6, Fail
  <1>10. QED
    BY <1>8, <1>9

\* The values the alphabets give to a name.
ValuesOf(n) ==
  CASE n = "collection" -> {Null, Bool, Str(<<"a">>), Str(<<"A">>), Str(Meta)}
    [] n = "id" -> {Null, Bool} \cup IDs
    [] n = "user_id" -> {Null, Str(Uid), Str(<<"a">>)}
    [] n = "role" -> {Null, Bool, Str(Writer), Str(<<"a">>)}
    [] n = "disabled" -> {Null, Bool, Str(<<>>)}
    [] n = "label" -> {Null, Str(<<"a">>), Str(<<>>)}
    [] n = "expires_at" -> {Null, Bool, Str(Future), Str(<<"a">>)}
    [] OTHER -> {Null, Bool}

\* The values that a member can have.
LEMMA MembersTyped ==
  ASSUME NEW m \in AnyMember
  PROVE  m.value \in ValuesOf(m.name)
  <1>1. ASSUME NEW n, NEW V, m \in Members(n, V)
        PROVE  m.name = n /\ m.value \in V
    BY <1>1 DEF Members
  <1>2. CASE m \in Members("collection", {Null, Bool, Str(<<"a">>), Str(<<"A">>), Str(Meta)})
    BY <1>1, <1>2 DEF ValuesOf
  <1>3. CASE m \in Members("id", {Null, Bool} \cup IDs)
    BY <1>1, <1>3 DEF ValuesOf
  <1>4. CASE m \in Members("document", {Null, Bool})
    BY <1>1, <1>4 DEF ValuesOf
  <1>5. CASE m \in Members("extra", {Bool})
    BY <1>1, <1>5 DEF ValuesOf
  <1>6. CASE m \in Members("user_id", {Null, Str(Uid), Str(<<"a">>)}) \/ m \in Members("user_id", {Null, Str(Uid)})
    BY <1>1, <1>6 DEF ValuesOf
  <1>7. CASE m \in Members("role", {Null, Bool, Str(Writer), Str(<<"a">>)})
    BY <1>1, <1>7 DEF ValuesOf
  <1>8. CASE m \in Members("disabled", {Null, Bool, Str(<<>>)})
    BY <1>1, <1>8 DEF ValuesOf
  <1>9. CASE m \in Members("label", {Null, Str(<<"a">>), Str(<<>>)})
    BY <1>1, <1>9 DEF ValuesOf
  <1>10. CASE m \in Members("expires_at", {Null, Bool, Str(Future), Str(<<"a">>)})
    BY <1>1, <1>10 DEF ValuesOf
  <1>11. QED
    BY <1>2, <1>3, <1>4, <1>5, <1>6, <1>7, <1>8, <1>9, <1>10
       DEF AnyMember, DataMembers, UserMembers, TokenMembers, Extra

\* In a body without repeats every reader finds the same value of a name.
LEMMA OneValue ==
  ASSUME NEW ms \in Seq(AnyMember), NoRepeats(ms), NEW i \in DOMAIN ms
  PROVE  /\ Decoded(ms)[ms[i].name] = ms[i].value
         /\ FirstValue(ms, ms[i].name) = ms[i].value
  <1> DEFINE n == ms[i].name
             T == {j \in DOMAIN ms : ms[j].name = n}
             U == {j \in 1..Len(ms) : ms[j].name = n}
  <1>1. DOMAIN ms = 1..Len(ms) /\ Len(ms) \in Nat
    OBVIOUS
  <1>2. T = {i} /\ U = {i} /\ i \in Nat /\ i # 0
    BY <1>1 DEF NoRepeats
  <1>3. Max(T) = i /\ Min(U) = i
    <2>1. Max({i}) = i
      BY <1>2 DEF Max
    <2>2. Min({i}) = i
      BY <1>2 DEF Min
    <2>3. QED
      BY <1>2, <2>1, <2>2
  <1>4. n \in Names(ms)
    BY DEF Names
  <1>5. Decoded(ms)[n] = ms[Max(T)].value
    BY <1>4 DEF Decoded
  <1>6. SelectInSeq(ms, LAMBDA m : m.name = n) = i
    BY <1>2, <1>3 DEF SelectInSeq
  <1>7. FirstValue(ms, n) = ms[i].value
    BY <1>2, <1>6 DEF FirstValue
  <1>8. QED
    BY <1>3, <1>5, <1>7

\* What the accessors see of such a body.
LEMMA FieldFacts ==
  ASSUME NEW ms \in Seq(AnyMember), NoRepeats(ms), NEW n
  PROVE  /\ DOMAIN Decoded(ms) = Names(ms)
         /\ n \in Names(ms) => /\ Decoded(ms)[n] = FirstValue(ms, n)
                               /\ Decoded(ms)[n] \in ValuesOf(n)
         /\ n \notin Names(ms) => FirstValue(ms, n) = Absent
         /\ \A V : ValueIn(ms, n, V) <=> (n \in Names(ms) => Decoded(ms)[n] \in V)
  <1>1. DOMAIN Decoded(ms) = Names(ms)
    BY DEF Decoded
  <1>2. \A i \in DOMAIN ms : ms[i] \in AnyMember
    OBVIOUS
  <1>3. ASSUME n \in Names(ms)
        PROVE  Decoded(ms)[n] = FirstValue(ms, n) /\ Decoded(ms)[n] \in ValuesOf(n)
    <2>1. PICK i \in DOMAIN ms : ms[i].name = n
      BY <1>3 DEF Names
    <2>2. QED
      BY <1>2, <2>1, OneValue, MembersTyped
  <1>4. ASSUME n \notin Names(ms) PROVE FirstValue(ms, n) = Absent
    <2>1. {j \in 1..Len(ms) : ms[j].name = n} = {}
      BY <1>4 DEF Names
    <2>2. SelectInSeq(ms, LAMBDA m : m.name = n) = 0
      BY <2>1 DEF SelectInSeq
    <2>3. QED
      BY <2>2 DEF FirstValue
  <1>5. ASSUME NEW V PROVE ValueIn(ms, n, V) <=> (n \in Names(ms) => Decoded(ms)[n] \in V)
    <2>1. \A i \in DOMAIN ms : Decoded(ms)[ms[i].name] = ms[i].value
      BY OneValue
    <2>2. n \in Names(ms) <=> \E i \in DOMAIN ms : ms[i].name = n
      BY DEF Names
    <2>3. QED
      BY <2>1, <2>2 DEF ValueIn
  <1>6. QED
    BY <1>1, <1>3, <1>4, <1>5

\* A value is null, a boolean or a string, and these are apart.
LEMMA ValueFacts ==
  /\ Null.kind = "null" /\ Bool.kind = "bool" /\ Absent.kind = "absent"
  /\ \A s : Str(s).kind = "string" /\ Str(s).s = s
  BY DEF Null, Bool, Absent, Str

\* The kinds of the values that the accessors tell apart.
LEMMA ValueKinds ==
  ASSUME NEW n, NEW v \in ValuesOf(n)
  PROVE  v = Null \/ v = Bool \/ \E s : v = Str(s)
  BY DEF ValuesOf, IDs

\* stringField takes the strings.
LEMMA StringFieldOk ==
  ASSUME NEW f, NEW n, n \in DOMAIN f => f[n] \in ValuesOf(n)
  PROVE  /\ stringField(f, n).ok <=> (n \in DOMAIN f /\ f[n].kind = "string")
         /\ stringField(f, n).ok => stringField(f, n).value = f[n]
  <1> DEFINE bad == n \notin DOMAIN f \/ isJSONNull(f[n]) \/ ~Unmarshals(f[n], "string")
  <1>1. bad <=> ~(n \in DOMAIN f /\ f[n].kind = "string")
    BY ValueFacts, ValueKinds DEF isJSONNull, Unmarshals
  <1> HIDE DEF bad
  <1>2. stringField(f, n) = IF bad THEN Fail("invalid_request") ELSE [ok |-> TRUE, value |-> f[n]]
    BY DEF stringField, bad
  <1>3. CASE bad
    BY <1>1, <1>2, <1>3 DEF Fail
  <1>4. CASE ~bad
    BY <1>1, <1>2, <1>4
  <1>5. QED
    BY <1>3, <1>4

\* optionalBoolField takes the booleans, and nothing for no member.
LEMMA OptionalBoolFieldOk ==
  ASSUME NEW f, NEW n, n \in DOMAIN f => f[n] \in ValuesOf(n)
  PROVE  /\ optionalBoolField(f, n).ok <=> (n \in DOMAIN f => f[n] = Bool)
         /\ optionalBoolField(f, n).ok =>
              optionalBoolField(f, n).value = IF n \in DOMAIN f THEN f[n] ELSE Absent
  <1> DEFINE bad == isJSONNull(f[n]) \/ ~Unmarshals(f[n], "bool")
  <1>1. n \in DOMAIN f => (bad <=> f[n] # Bool)
    BY ValueFacts, ValueKinds DEF isJSONNull, Unmarshals
  <1> HIDE DEF bad
  <1>2. optionalBoolField(f, n) =
          IF n \notin DOMAIN f THEN [ok |-> TRUE, value |-> Absent]
          ELSE IF bad THEN Fail("invalid_request") ELSE [ok |-> TRUE, value |-> f[n]]
    BY DEF optionalBoolField, bad
  <1>3. CASE n \notin DOMAIN f
    BY <1>2, <1>3
  <1>4. CASE n \in DOMAIN f /\ bad
    BY <1>1, <1>2, <1>4 DEF Fail
  <1>5. CASE n \in DOMAIN f /\ ~bad
    BY <1>1, <1>2, <1>5
  <1>6. QED
    BY <1>3, <1>4, <1>5

\* optionalStringField takes the strings, and nothing for null or no member.
LEMMA OptionalStringFieldOk ==
  ASSUME NEW f, NEW n, n \in DOMAIN f => f[n] \in ValuesOf(n)
  PROVE  /\ optionalStringField(f, n).ok <=> (n \in DOMAIN f => f[n] = Null \/ f[n].kind = "string")
         /\ optionalStringField(f, n).ok =>
              optionalStringField(f, n).value =
                IF n \in DOMAIN f /\ f[n] # Null THEN f[n] ELSE Absent
  <1>1. CASE n \notin DOMAIN f \/ f[n] = Null
    <2>1. optionalStringField(f, n) = [ok |-> TRUE, value |-> Absent]
      BY <1>1 DEF optionalStringField, isJSONNull
    <2>2. QED
      BY <1>1, <2>1
  <1>2. CASE n \in DOMAIN f /\ f[n] # Null
    <2>1. optionalStringField(f, n) = stringField(f, n)
      BY <1>2 DEF optionalStringField, isJSONNull
    <2>2. QED
      BY <1>2, <2>1, StringFieldOk
  <1>3. QED
    BY <1>1, <1>2

\* The names of the alphabet that can be addressed.
LEMMA SomeTargets ==
  /\ validCollectionName(<<"a">>) /\ ~reservedCollection(<<"a">>)
  /\ ~validCollectionName(<<"A">>)
  /\ reservedCollection(Meta)
  <1>1. <<"a">> \in Seq(Bytes) /\ <<"A">> \in Seq(Bytes)
    BY SomeBytes
  <1>2. IsPath(<<"a">>)
    <2>1. ToSet(<<"a">>) = {"a"}
      BY DEF ToSet
    <2>2. "a" \in NameBytes /\ "a" # "/"
      BY DEF NameBytes
    <2>3. Len(<<"a">>) = 1 /\ <<"a">>[1] = "a"
      OBVIOUS
    <2>4. 1 \in 1..maxNameLen /\ 2..1 = {}
      OBVIOUS
    <2>5. QED
      BY <2>1, <2>2, <2>3, <2>4 DEF IsPath
  <1>3. ~IsPath(<<"A">>)
    <2>1. "A" \in ToSet(<<"A">>)
      BY DEF ToSet
    <2>2. "A" \notin NameBytes \cup {"/"}
      BY DEF NameBytes
    <2>3. QED
      BY <2>1, <2>2 DEF IsPath
  <1>4. ~reservedCollection(<<"a">>)
    <2>1. Len(<<"a">>) = 1 /\ Len(Append(Meta, "/")) = Len(Meta) + 1
      BY MetaSeq, SomeBytes, AppendProperties
    <2>2. QED
      BY <2>1, MetaLen DEF reservedCollection, IsPrefix
  <1>5. QED
    BY <1>1, <1>2, <1>3, <1>4, NamesArePaths DEF reservedCollection

\* What collectionTarget accepts of the bodies of data requests.
LEMMA CollectionTargetOk ==
  ASSUME NEW f, "collection" \in DOMAIN f => f["collection"] \in ValuesOf("collection")
  PROVE  /\ collectionTarget(f).ok <=> "collection" \in DOMAIN f /\ f["collection"] = Str(<<"a">>)
         /\ collectionTarget(f).ok => collectionTarget(f).collection = <<"a">>
  <1> DEFINE c == stringField(f, "collection")
             v == f["collection"]
  <1>1. c.ok <=> "collection" \in DOMAIN f /\ v.kind = "string"
    BY StringFieldOk
  <1>2. c.ok => c.value = v
    BY StringFieldOk
  <1>3. ValuesOf("collection") = {Null, Bool, Str(<<"a">>), Str(<<"A">>), Str(Meta)}
    BY DEF ValuesOf
  <1>4. collectionTarget(f) =
          IF ~c.ok THEN c
          ELSE IF ~validCollectionName(c.value.s) THEN Fail("invalid_collection")
          ELSE IF reservedCollection(c.value.s) THEN Fail("reserved_collection")
          ELSE [ok |-> TRUE, collection |-> c.value.s]
    BY DEF collectionTarget
  <1> HIDE DEF c
  <1>5. CASE ~c.ok
    BY <1>1, <1>4, <1>5, ValueFacts
  <1>6. CASE c.ok /\ v = Str(<<"a">>)
    <2>1. c.value.s = <<"a">>
      BY <1>2, <1>6, ValueFacts
    <2>2. collectionTarget(f) = [ok |-> TRUE, collection |-> <<"a">>]
      BY <1>4, <1>6, <2>1, SomeTargets
    <2>3. QED
      BY <1>1, <1>6, <2>2
  <1>7. CASE c.ok /\ v # Str(<<"a">>)
    <2>1. v = Str(<<"A">>) \/ v = Str(Meta)
      BY <1>1, <1>3, <1>7, ValueFacts
    <2>2. c.value.s = <<"A">> \/ c.value.s = Meta
      BY <1>2, <1>7, <2>1, ValueFacts
    <2>3. \E code : collectionTarget(f) = Fail(code)
      BY <1>4, <1>7, <2>2, SomeTargets
    <2>4. QED
      BY <1>7, <2>3 DEF Fail
  <1>8. QED
    BY <1>5, <1>6, <1>7

\* What documentTarget accepts of them.
LEMMA DocumentTargetOk ==
  ASSUME NEW f, "collection" \in DOMAIN f => f["collection"] \in ValuesOf("collection"),
         "id" \in DOMAIN f => f["id"] \in ValuesOf("id")
  PROVE  /\ documentTarget(f).ok <=>
              /\ "collection" \in DOMAIN f /\ f["collection"] = Str(<<"a">>)
              /\ "id" \in DOMAIN f /\ f["id"] \in {v \in IDs : Len(v.s) <= maxIDSize}
         /\ documentTarget(f).ok =>
              documentTarget(f).collection = <<"a">> /\ Str(documentTarget(f).id) = f["id"]
  <1> DEFINE c == collectionTarget(f)
             d == stringField(f, "id")
             v == f["id"]
  <1>1. c.ok <=> "collection" \in DOMAIN f /\ f["collection"] = Str(<<"a">>)
    BY CollectionTargetOk
  <1>2. c.ok => c.collection = <<"a">>
    BY CollectionTargetOk
  <1>3. d.ok <=> "id" \in DOMAIN f /\ v.kind = "string"
    BY StringFieldOk
  <1>4. d.ok => d.value = v
    BY StringFieldOk
  <1>5. documentTarget(f) =
          IF ~c.ok THEN c
          ELSE IF ~d.ok THEN d
          ELSE IF Len(d.value.s) > maxIDSize THEN Fail("invalid_id")
          ELSE [ok |-> TRUE, collection |-> c.collection, id |-> d.value.s]
    BY DEF documentTarget
  <1>6. ASSUME "id" \in DOMAIN f
        PROVE  v.kind = "string" <=> v \in IDs
    BY <1>6, ValueFacts DEF ValuesOf, IDs
  <1>7. \A x \in IDs : Str(x.s) = x /\ Len(x.s) \in Nat
    <2>1. Len(<<>>) \in Nat /\ Len(<<"a">>) \in Nat /\ Len(Meta) \in Nat
      BY MetaLen
    <2>2. QED
      BY <2>1, ValueFacts DEF IDs
  <1> HIDE DEF c, d
  <1>8. CASE ~c.ok
    BY <1>1, <1>5, <1>8
  <1>9. CASE c.ok /\ ~d.ok
    BY <1>3, <1>5, <1>6, <1>9
  <1>10. CASE c.ok /\ d.ok /\ Len(v.s) > maxIDSize
    <2>1. documentTarget(f) = Fail("invalid_id")
      BY <1>4, <1>5, <1>10
    <2>2. v \in IDs /\ ~(Len(v.s) <= maxIDSize)
      BY <1>3, <1>6, <1>7, <1>10
    <2>3. QED
      BY <2>1, <2>2 DEF Fail
  <1>11. CASE c.ok /\ d.ok /\ ~(Len(v.s) > maxIDSize)
    <2>1. documentTarget(f) = [ok |-> TRUE, collection |-> <<"a">>, id |-> v.s]
      BY <1>2, <1>4, <1>5, <1>11
    <2>2. v \in IDs /\ Len(v.s) <= maxIDSize /\ Str(v.s) = v
      BY <1>3, <1>6, <1>7, <1>11
    <2>3. QED
      BY <1>1, <1>3, <1>11, <2>1, <2>2
  <1>12. QED
    BY <1>8, <1>9, <1>10, <1>11

Schemas == {{"collection"}, {"collection", "id"}, {"collection", "id", "document"}}

\* The data endpoints.
LEMMA DataRequestOk ==
  ASSUME NEW r \in [env : Envelopes, members : Seq(AnyMember)], NEW schema \in Schemas
  PROVE  /\ DataRequest(r, schema).ok <=>
              /\ r.env = Plain /\ NoRepeats(r.members) /\ Names(r.members) = schema
              /\ ValueIn(r.members, "collection", {Str(<<"a">>)})
              /\ ValueIn(r.members, "id", {v \in IDs : Len(v.s) <= maxIDSize})
         /\ DataRequest(r, schema).ok =>
              /\ Str(DataRequest(r, schema).collection) = FirstValue(r.members, "collection")
              /\ "id" \in schema => Str(DataRequest(r, schema).id) = FirstValue(r.members, "id")
  <1> DEFINE ms == r.members
             o == readObject(r, schema, schema)
             t == DataRequest(r, schema)
             f == Decoded(ms)
             vid == {v \in IDs : Len(v.s) <= maxIDSize}
  <1>1. o.ok <=> r.env = Plain /\ NoRepeats(ms) /\ Names(ms) = schema
    <2>1. o.ok <=> /\ r.env = Plain /\ NoRepeats(ms)
                   /\ Names(ms) \subseteq schema /\ schema \subseteq Names(ms)
      BY ReadObjectOk
    <2> HIDE DEF o, ms
    <2>2. QED
      BY <2>1
  <1>2. o.ok => o.fields = f
    BY ReadObjectOk
  <1>3. t = IF ~o.ok THEN o
            ELSE IF "id" \in schema THEN documentTarget(o.fields) ELSE collectionTarget(o.fields)
    BY DEF DataRequest
  <1>4. "collection" \in schema
    BY DEF Schemas
  <1>5. ms \in Seq(AnyMember)
    OBVIOUS
  <1> HIDE DEF o, t, f, vid, ms
  <1>6. CASE ~o.ok
    <2>1. ~t.ok
      BY <1>3, <1>6
    <2>2. ~(r.env = Plain /\ NoRepeats(r.members) /\ Names(r.members) = schema)
      BY <1>1, <1>6 DEF ms
    <2>3. QED
      BY <2>1, <2>2 DEF t
  <1>7. CASE o.ok
    <2>1. NoRepeats(ms) /\ Names(ms) = schema /\ r.env = Plain /\ o.fields = f
      BY <1>1, <1>2, <1>7
    <2>2. /\ DOMAIN f = schema
          /\ f["collection"] = FirstValue(ms, "collection") /\ f["collection"] \in ValuesOf("collection")
          /\ ValueIn(ms, "collection", {Str(<<"a">>)}) <=> f["collection"] \in {Str(<<"a">>)}
      BY <1>4, <1>5, <2>1, FieldFacts DEF f
    <2>3. /\ "id" \in schema => f["id"] = FirstValue(ms, "id") /\ f["id"] \in ValuesOf("id")
          /\ ValueIn(ms, "id", vid) <=> ("id" \in schema => f["id"] \in vid)
      BY <1>5, <2>1, FieldFacts DEF f
    <2>4. CASE "id" \notin schema
      <3>1. t = collectionTarget(f)
        BY <1>3, <1>7, <2>1, <2>4
      <3>2. QED
        BY <1>4, <2>1, <2>2, <2>3, <2>4, <3>1, CollectionTargetOk DEF t, ms, vid
    <2>5. CASE "id" \in schema
      <3>1. t = documentTarget(f)
        BY <1>3, <1>7, <2>1, <2>5
      <3>2. t.ok <=> f["collection"] = Str(<<"a">>) /\ f["id"] \in vid
        BY <1>4, <2>2, <2>3, <2>5, <3>1, DocumentTargetOk DEF vid
      <3>3. t.ok => Str(t.collection) = f["collection"] /\ Str(t.id) = f["id"]
        BY <1>4, <2>2, <2>3, <2>5, <3>1, DocumentTargetOk
      <3>4. QED
        BY <2>1, <2>2, <2>3, <2>5, <3>2, <3>3 DEF t, ms, vid
    <2>6. QED
      BY <2>4, <2>5
  <1>8. QED
    BY <1>6, <1>7

\* A set of names that has user_id has another one just when it is larger
\* than one.
LEMMA OneMore ==
  ASSUME NEW S, NEW ms \in Seq(S), "user_id" \in Names(ms)
  PROVE  Cardinality(Names(ms)) > 1 <=> Names(ms) # {"user_id"}
  <1>1. IsFiniteSet(Names(ms)) /\ Cardinality(Names(ms)) \in Nat
    <2> DEFINE f == [i \in 1..Len(ms) |-> ms[i].name]
    <2>1. f \in Surjection(1..Len(ms), Names(ms))
      BY DEF Surjection, Names
    <2>2. IsFiniteSet(1..Len(ms))
      BY FS_Interval
    <2>3. IsFiniteSet(Names(ms))
      BY <2>1, <2>2, FS_Surjection
    <2>4. QED
      BY <2>3, FS_CardinalityType
  <1>2. Cardinality(Names(ms)) # 0
    BY <1>1, FS_EmptySet
  <1>3. Cardinality(Names(ms)) = 1 <=> \E x : Names(ms) = {x}
    BY <1>1, FS_Singleton
  <1>4. (\E x : Names(ms) = {x}) <=> Names(ms) = {"user_id"}
    OBVIOUS
  <1>5. \A k \in Nat : k # 0 => (k > 1 <=> k # 1)
    OBVIOUS
  <1>6. QED
    BY <1>1, <1>2, <1>3, <1>4, <1>5

\* The strings of the alphabets are different.
LEMMA ApartStrings ==
  /\ Uid # <<"a">> /\ Writer # <<"a">> /\ Future # <<"a">> /\ <<"a">> # <<>>
  <1>1. "a" # "u" /\ "a" # "w" /\ "a" # "f"
    OBVIOUS
  <1>2. QED
    BY <1>1 DEF Uid, Writer, Future

\* What handleUserUpdate accepts, and what it reads then.
LEMMA UserUpdateOk ==
  ASSUME NEW r \in [env : Envelopes, members : Seq(AnyMember)]
  PROVE  /\ UserUpdate(r).ok <=>
              /\ r.env = Plain /\ NoRepeats(r.members)
              /\ Names(r.members) \subseteq {"user_id", "role", "disabled"}
              /\ "user_id" \in Names(r.members) /\ Cardinality(Names(r.members)) > 1
              /\ ValueIn(r.members, "user_id", {Str(Uid)})
              /\ ValueIn(r.members, "role", {Str(Writer)}) /\ ValueIn(r.members, "disabled", {Bool})
         /\ UserUpdate(r).ok =>
              /\ UserUpdate(r).role = FirstValue(r.members, "role")
              /\ UserUpdate(r).disabled = FirstValue(r.members, "disabled")
  <1> DEFINE ms == r.members
             allowed == {"user_id", "role", "disabled"}
             o == readObject(r, allowed, {"user_id"})
             x == UserUpdate(r)
             f == Decoded(ms)
  <1>1. o.ok <=> r.env = Plain /\ NoRepeats(ms) /\ Names(ms) \subseteq allowed /\ "user_id" \in Names(ms)
    <2> HIDE DEF allowed
    <2> DEFINE required == {"user_id"}
    <2>1. required \subseteq Names(ms) <=> "user_id" \in Names(ms)
      OBVIOUS
    <2> HIDE DEF required
    <2>2. readObject(r, allowed, required).ok <=>
            /\ r.env = Plain /\ NoRepeats(ms)
            /\ Names(ms) \subseteq allowed /\ required \subseteq Names(ms)
      BY ReadObjectOk
    <2>3. QED
      BY <2>1, <2>2 DEF required
  <1>2. o.ok => o.fields = f
    BY ReadObjectOk
  <1>3. ~o.ok => x = o
    BY DEF UserUpdate
  <1>4. ms \in Seq(AnyMember)
    OBVIOUS
  <1>5. CASE ~o.ok
    <2>1. ~x.ok
      BY <1>3, <1>5
    <2>2. QED
      BY <1>1, <1>5, <2>1
  <1>6. CASE o.ok
    <2> DEFINE u == stringField(f, "user_id")
               l == stringField(f, "role")
               d == optionalBoolField(f, "disabled")
               given == "role" \in DOMAIN f
    <2>1. /\ NoRepeats(ms) /\ Names(ms) \subseteq allowed /\ "user_id" \in Names(ms)
          /\ r.env = Plain /\ o.fields = f
      BY <1>1, <1>2, <1>6
    <2>2. x = IF ~u.ok THEN u
              ELSE IF u.value.s # Uid \/ (given /\ ~l.ok) THEN Fail("invalid_request")
              ELSE IF given /\ l.value.s # Writer THEN Fail("invalid_request")
              ELSE IF ~d.ok THEN d
              ELSE IF ~given /\ d.value = Absent THEN Fail("invalid_request")
              ELSE [ok |-> TRUE, role |-> IF given THEN l.value ELSE Absent,
                    disabled |-> d.value]
      <3> HIDE DEF f
      <3>1. QED
        BY <1>6, <2>1 DEF UserUpdate
    <2> HIDE DEF x, f, o, ms
    <2>3. /\ DOMAIN f = Names(ms)
          /\ f["user_id"] \in ValuesOf("user_id")
          /\ ValueIn(ms, "user_id", {Str(Uid)}) <=> f["user_id"] = Str(Uid)
      BY <1>4, <2>1, FieldFacts DEF f
    <2>4. /\ given => f["role"] = FirstValue(ms, "role") /\ f["role"] \in ValuesOf("role")
          /\ ~given => FirstValue(ms, "role") = Absent
          /\ ValueIn(ms, "role", {Str(Writer)}) <=> (given => f["role"] = Str(Writer))
      BY <1>4, <2>1, FieldFacts DEF f
    <2>5. LET also == "disabled" \in DOMAIN f IN
          /\ also => f["disabled"] = FirstValue(ms, "disabled") /\ f["disabled"] \in ValuesOf("disabled")
          /\ ~also => FirstValue(ms, "disabled") = Absent
          /\ ValueIn(ms, "disabled", {Bool}) <=> (also => f["disabled"] = Bool)
      BY <1>4, <2>1, FieldFacts DEF f
    <2>6. u.ok /\ u.value.s = Uid <=> f["user_id"] = Str(Uid)
      <3>1. u.ok <=> f["user_id"].kind = "string"
        BY <2>1, <2>3, StringFieldOk
      <3>2. u.ok => u.value = f["user_id"]
        BY <2>1, <2>3, StringFieldOk
      <3> HIDE DEF u
      <3>3. QED
        BY <2>3, <3>1, <3>2, ValueFacts, ApartStrings DEF ValuesOf
    <2>7. given => /\ l.ok /\ l.value.s = Writer <=> f["role"] = Str(Writer)
                   /\ l.ok => l.value = f["role"]
      <3>1. given => (l.ok <=> f["role"].kind = "string")
        BY <2>4, StringFieldOk
      <3>2. l.ok => l.value = f["role"]
        BY <2>4, StringFieldOk
      <3> HIDE DEF l
      <3>3. given => f["role"] \in {Null, Bool, Str(Writer), Str(<<"a">>)}
        BY <2>4 DEF ValuesOf
      <3>4. QED
        BY <3>1, <3>2, <3>3, ValueFacts, ApartStrings
    <2>8. /\ d.ok <=> ("disabled" \in DOMAIN f => f["disabled"] = Bool)
          /\ d.ok => d.value = FirstValue(ms, "disabled")
          /\ d.ok => (d.value = Absent <=> "disabled" \notin DOMAIN f)
      <3>1. /\ d.ok <=> ("disabled" \in DOMAIN f => f["disabled"] = Bool)
            /\ d.ok => d.value = IF "disabled" \in DOMAIN f THEN f["disabled"] ELSE Absent
        BY <2>5, OptionalBoolFieldOk
      <3> HIDE DEF d
      <3>2. Bool # Absent
        BY ValueFacts
      <3>3. QED
        BY <2>5, <3>1, <3>2
    <2>9. Cardinality(Names(ms)) > 1 <=> (given \/ "disabled" \in DOMAIN f)
      <3>1. Names(ms) # {"user_id"} <=> "role" \in Names(ms) \/ "disabled" \in Names(ms)
        BY <2>1
      <3>2. QED
        BY <1>4, <2>1, <2>3, <3>1, OneMore
    <2> DEFINE good == /\ f["user_id"] = Str(Uid) /\ (given => f["role"] = Str(Writer))
                       /\ ("disabled" \in DOMAIN f => f["disabled"] = Bool)
                       /\ (given \/ "disabled" \in DOMAIN f)
    <2>10. CASE good
      <3>1. x = [ok |-> TRUE, role |-> IF given THEN l.value ELSE Absent, disabled |-> d.value]
        <4> HIDE DEF u, l, d, given
        <4>1. u.ok /\ u.value.s = Uid /\ (given => l.ok /\ l.value.s = Writer) /\ d.ok
              /\ ~(~given /\ d.value = Absent)
          BY <2>6, <2>7, <2>8, <2>10
        <4>2. QED
          BY <2>2, <4>1
      <3>2. x.ok /\ x.role = FirstValue(ms, "role") /\ x.disabled = FirstValue(ms, "disabled")
        <4> HIDE DEF u, l, d, given
        <4>1. QED
          BY <2>4, <2>7, <2>8, <2>10, <3>1
      <3>3. QED
        BY <2>1, <2>3, <2>4, <2>5, <2>9, <2>10, <3>2 DEF x, ms
    <2>11. CASE ~good
      <3>1. ~x.ok
        <4> HIDE DEF u, l, d, given
        <4>1. ~Fail("invalid_request").ok
          BY DEF Fail
        <4>2. QED
          BY <2>2, <2>6, <2>7, <2>8, <2>11, <4>1
      <3>2. QED
        BY <2>1, <2>3, <2>4, <2>5, <2>9, <2>11, <3>1 DEF x, ms
    <2>12. QED
      BY <2>10, <2>11
  <1>7. QED
    BY <1>5, <1>6

\* What handleTokenCreate accepts, and what it reads then.
LEMMA TokenRequestOk ==
  ASSUME NEW r \in [env : Envelopes, members : Seq(AnyMember)]
  PROVE  /\ TokenRequest(r).ok <=>
              /\ r.env = Plain /\ NoRepeats(r.members)
              /\ Names(r.members) \subseteq {"user_id", "label", "expires_at"}
              /\ {"user_id", "label"} \subseteq Names(r.members)
              /\ ValueIn(r.members, "user_id", {Str(Uid)}) /\ ValueIn(r.members, "label", {Str(<<"a">>)})
              /\ ValueIn(r.members, "expires_at", {Null, Str(Future)})
         /\ TokenRequest(r).ok =>
              /\ TokenRequest(r).expires \in {Str(Future), Absent}
              /\ TokenRequest(r).expires = Absent
                   <=> FirstValue(r.members, "expires_at") \in {Absent, Null}
  <1> DEFINE ms == r.members
             allowed == {"user_id", "label", "expires_at"}
             required == {"user_id", "label"}
             o == readObject(r, allowed, required)
             x == TokenRequest(r)
             f == Decoded(ms)
  <1>0. required \subseteq Names(ms) <=> "user_id" \in Names(ms) /\ "label" \in Names(ms)
    OBVIOUS
  <1>1. /\ o.ok <=> /\ r.env = Plain /\ NoRepeats(ms)
                    /\ Names(ms) \subseteq allowed /\ required \subseteq Names(ms)
        /\ o.ok => o.fields = f
    <2> HIDE DEF allowed, required
    <2>1. QED
      BY ReadObjectOk
  <1>2. ~o.ok => x = o
    BY DEF TokenRequest
  <1>4. ms \in Seq(AnyMember)
    OBVIOUS
  <1>5. CASE ~o.ok
    <2>1. ~x.ok
      BY <1>2, <1>5
    <2>2. QED
      BY <1>1, <1>5, <2>1
  <1>6. CASE o.ok
    <2> DEFINE u == stringField(f, "user_id")
               l == stringField(f, "label")
               e == optionalStringField(f, "expires_at")
               given == "expires_at" \in DOMAIN f
    <2>1. /\ NoRepeats(ms) /\ Names(ms) \subseteq allowed
          /\ required \subseteq Names(ms) /\ "user_id" \in Names(ms) /\ "label" \in Names(ms)
          /\ r.env = Plain /\ o.fields = f
      <3> HIDE DEF allowed, required, o
      <3>1. QED
        BY <1>0, <1>1, <1>6
    <2>2. x = IF ~u.ok THEN u
              ELSE IF u.value.s # Uid \/ ~l.ok THEN Fail("invalid_request")
              ELSE IF l.value.s = <<>> \/ ~e.ok THEN Fail("invalid_request")
              ELSE IF e.value \notin {Absent, Str(Future)} THEN Fail("invalid_request")
              ELSE [ok |-> TRUE, expires |-> e.value]
      <3> HIDE DEF f
      <3>1. QED
        BY <1>6, <2>1 DEF TokenRequest
    <2> HIDE DEF x, f, o, ms
    <2>3. /\ DOMAIN f = Names(ms)
          /\ f["user_id"] \in ValuesOf("user_id")
          /\ ValueIn(ms, "user_id", {Str(Uid)}) <=> f["user_id"] = Str(Uid)
      BY <1>4, <2>1, FieldFacts DEF f
    <2>4. /\ f["label"] \in ValuesOf("label")
          /\ ValueIn(ms, "label", {Str(<<"a">>)}) <=> f["label"] = Str(<<"a">>)
      BY <1>4, <2>1, FieldFacts DEF f
    <2>5. /\ given => /\ f["expires_at"] = FirstValue(ms, "expires_at")
                      /\ f["expires_at"] \in ValuesOf("expires_at")
          /\ ~given => FirstValue(ms, "expires_at") = Absent
          /\ ValueIn(ms, "expires_at", {Null, Str(Future)}) <=>
                (given => f["expires_at"] \in {Null, Str(Future)})
      BY <1>4, <2>1, FieldFacts DEF f
    <2>6. u.ok /\ u.value.s = Uid <=> f["user_id"] = Str(Uid)
      <3>1. u.ok <=> f["user_id"].kind = "string"
        BY <2>1, <2>3, StringFieldOk
      <3>2. u.ok => u.value = f["user_id"]
        BY <2>1, <2>3, StringFieldOk
      <3> HIDE DEF u
      <3>3. QED
        BY <2>3, <3>1, <3>2, ValueFacts, ApartStrings DEF ValuesOf
    <2>7. l.ok /\ l.value.s # <<>> <=> f["label"] = Str(<<"a">>)
      <3>1. l.ok <=> f["label"].kind = "string"
        BY <2>1, <2>3, <2>4, StringFieldOk
      <3>2. l.ok => l.value = f["label"]
        BY <2>1, <2>3, <2>4, StringFieldOk
      <3> HIDE DEF l
      <3>3. f["label"] \in {Null, Str(<<"a">>), Str(<<>>)}
        BY <2>4 DEF ValuesOf
      <3>4. CASE f["label"] = Null
        BY <3>1, <3>4, ValueFacts
      <3>5. CASE f["label"] = Str(<<>>)
        <4>1. f["label"].s = <<>> /\ Str(<<>>) # Str(<<"a">>)
          BY <3>5, ValueFacts, ApartStrings
        <4>2. QED
          BY <3>2, <3>5, <4>1
      <3>6. CASE f["label"] = Str(<<"a">>)
        <4>1. f["label"].s = <<"a">> /\ f["label"].kind = "string"
          BY <3>6, ValueFacts
        <4>2. QED
          BY <3>1, <3>2, <3>6, <4>1, ApartStrings
      <3>7. QED
        BY <3>3, <3>4, <3>5, <3>6
    <2>8. /\ e.ok /\ e.value \in {Absent, Str(Future)} <=> (given => f["expires_at"] \in {Null, Str(Future)})
          /\ e.ok => (e.value = Absent <=> FirstValue(ms, "expires_at") \in {Absent, Null})
      <3>1. /\ e.ok <=> (given => f["expires_at"] = Null \/ f["expires_at"].kind = "string")
            /\ e.ok => e.value = IF given /\ f["expires_at"] # Null THEN f["expires_at"] ELSE Absent
        BY <2>5, OptionalStringFieldOk
      <3> HIDE DEF e
      <3>2. given => f["expires_at"] \in {Null, Bool, Str(Future), Str(<<"a">>)}
        BY <2>5 DEF ValuesOf
      <3> HIDE DEF given
      <3>3. CASE ~given
        BY <2>5, <3>1, <3>3
      <3>4. CASE given
        <4> DEFINE v == f["expires_at"]
        <4>1. v = Null \/ v = Bool \/ v = Str(Future) \/ v = Str(<<"a">>)
          BY <3>2, <3>4
        <4>2. v = FirstValue(ms, "expires_at")
          BY <2>5, <3>4
        <4>3. /\ e.ok <=> v = Null \/ v.kind = "string"
              /\ e.ok => e.value = IF v # Null THEN v ELSE Absent
          BY <3>1, <3>4
        <4> HIDE DEF v
        <4>4. v # Absent /\ Bool # Null /\ Str(Future) # Str(<<"a">>) /\ Str(<<"a">>) # Null
              /\ Str(<<"a">>) # Absent /\ Str(Future) # Null /\ Str(Future) # Absent
              /\ Bool # Str(Future) /\ Bool # Str(<<"a">>)
          BY <4>1, ValueFacts, ApartStrings
        <4>5. e.ok <=> v # Bool
          BY <4>1, <4>3, <4>4, ValueFacts
        <4>6. e.ok => (e.value = Absent <=> v = Null)
          BY <4>3, <4>4
        <4>7. e.ok /\ e.value \in {Absent, Str(Future)} <=> v \in {Null, Str(Future)}
          BY <4>1, <4>3, <4>4, <4>5
        <4>8. QED
          BY <3>4, <4>2, <4>4, <4>6, <4>7 DEF v
      <3>5. QED
        BY <3>3, <3>4
    <2> DEFINE good == /\ f["user_id"] = Str(Uid) /\ f["label"] = Str(<<"a">>)
                       /\ (given => f["expires_at"] \in {Null, Str(Future)})
    <2> HIDE DEF u, l, e, given
    <2>10. CASE good
      <3>1. x = [ok |-> TRUE, expires |-> e.value]
        BY <2>2, <2>6, <2>7, <2>8, <2>10
      <3>2. /\ x.ok /\ x.expires \in {Str(Future), Absent}
            /\ x.expires = Absent <=> FirstValue(ms, "expires_at") \in {Absent, Null}
        BY <2>8, <2>10, <3>1
      <3>3. QED
        BY <2>1, <2>3, <2>4, <2>5, <2>10, <3>2 DEF x, ms
    <2>11. CASE ~good
      <3>1. ~x.ok
        <4>1. ~Fail("invalid_request").ok
          BY DEF Fail
        <4>2. QED
          BY <2>2, <2>6, <2>7, <2>8, <2>11, <4>1
      <3>2. QED
        BY <2>1, <2>3, <2>4, <2>5, <2>11, <3>1 DEF x, ms
    <2>12. QED
      BY <2>10, <2>11
  <1>7. QED
    BY <1>5, <1>6

\* For bodies of any number of members: what the data endpoints,
\* handleUserUpdate and handleTokenCreate accept has one reading, no null
\* stands for a value, and nothing else is refused.
THEOREM OneReadingHolds == Spec => []OneReading
  <1>1. TypeInv => OneReading
    <2> SUFFICES ASSUME TypeInv PROVE OneReading
      OBVIOUS
    <2>1. body \in [env : Envelopes, members : Seq(AnyMember)]
      BY DEF TypeInv
    <2>2. \A schema \in {{"collection"}, {"collection", "id"}, {"collection", "id", "document"}} :
             LET t == DataRequest(body, schema) IN
             /\ t.ok <=> /\ body.env = Plain /\ NoRepeats(body.members) /\ Names(body.members) = schema
                         /\ ValueIn(body.members, "collection", {Str(<<"a">>)})
                         /\ ValueIn(body.members, "id", {v \in IDs : Len(v.s) <= maxIDSize})
             /\ t.ok => /\ Str(t.collection) = FirstValue(body.members, "collection")
                        /\ "id" \in schema => Str(t.id) = FirstValue(body.members, "id")
      BY <2>1, DataRequestOk DEF Schemas
    <2>3. QED
      BY <2>1, <2>2, UserUpdateOk, TokenRequestOk DEF OneReading
  <1>2. QED
    BY <1>1, TypesHold, PTL

-----------------------------------------------------------------------------
(* Texts *)

\* An escape is refused or leads further, at most to the end.
LEMMA EscapeEndBounds ==
  ASSUME NEW S, NEW data \in Seq(S), NEW i \in 1..Len(data)
  PROVE  /\ EscapeEnd(data, i) \in Nat
         /\ EscapeEnd(data, i) = 0 \/ EscapeEnd(data, i) \in (i + 1)..(Len(data) + 1)
  <1>1. i + 5 > Len(data) => parseHex4(data, i + 2) = -1
    BY DEF parseHex4
  <1>2. QED
    BY <1>1 DEF EscapeEnd

\* The positions from which the scan accepts, inside a string and outside.
StepOut(data, I, O, i) ==
  IF i > Len(data) THEN TRUE ELSE IF data[i] = "quote" THEN i + 1 \in I ELSE i + 1 \in O

StepIn(data, I, O, i) ==
  IF i > Len(data) THEN FALSE
  ELSE IF data[i] = "quote" THEN i + 1 \in O
  ELSE IF data[i] # "bslash" THEN i + 1 \in I
  ELSE EscapeEnd(data, i) # 0 /\ EscapeEnd(data, i) \in I

Accepts(data, I, O, m) ==
  /\ I \subseteq m..(Len(data) + 1) /\ O \subseteq m..(Len(data) + 1)
  /\ \A i \in m..(Len(data) + 1) : /\ i \in I <=> StepIn(data, I, O, i)
                                   /\ i \in O <=> StepOut(data, I, O, i)

\* Positions before i do not matter.
LEMMA StepLocal ==
  ASSUME NEW S, NEW data \in Seq(S), NEW i \in 1..(Len(data) + 1), NEW I, NEW O, NEW J, NEW P,
         \A j \in (i + 1)..(Len(data) + 1) : (j \in I <=> j \in J) /\ (j \in O <=> j \in P)
  PROVE  /\ StepIn(data, I, O, i) <=> StepIn(data, J, P, i)
         /\ StepOut(data, I, O, i) <=> StepOut(data, J, P, i)
  <1>1. CASE i > Len(data)
    BY <1>1 DEF StepIn, StepOut
  <1>2. CASE ~(i > Len(data))
    <2>1. i \in 1..Len(data) /\ i + 1 \in (i + 1)..(Len(data) + 1)
      BY <1>2
    <2>2. EscapeEnd(data, i) = 0 \/ EscapeEnd(data, i) \in (i + 1)..(Len(data) + 1)
      BY <2>1, EscapeEndBounds
    <2>3. QED
      BY <1>2, <2>1, <2>2 DEF StepIn, StepOut
  <1>3. QED
    BY <1>1, <1>2

\* There are such positions for all data: they are found from the end on.
LEMMA AcceptsExist ==
  ASSUME NEW S, NEW data \in Seq(S)
  PROVE  \E I, O : Accepts(data, I, O, 1)
  <1> DEFINE n == Len(data)
             T == {k \in 0..n : ~ \E I, O : Accepts(data, I, O, n + 1 - k)}
  <1>1. n \in Nat /\ n + 1 - n = 1 /\ n \in 0..n
    OBVIOUS
  <1>2. SUFFICES T = {}
    BY <1>1
  <1>3. SUFFICES ASSUME T # {} PROVE FALSE
    OBVIOUS
  <1>4. T \subseteq Nat
    OBVIOUS
  <1> HIDE DEF T, n
  <1>5. PICK k \in T : \A y \in T : k <= y
    BY <1>3, <1>4, Least
  <1>6. k \in 0..n /\ ~ \E I, O : Accepts(data, I, O, n + 1 - k)
    BY DEF T
  <1> DEFINE m == n + 1 - k
  <1>7. m \in 1..(n + 1)
    BY <1>1, <1>6
  <1>8. PICK I, O : /\ I \subseteq (m + 1)..(n + 1) /\ O \subseteq (m + 1)..(n + 1)
                    /\ \A i \in (m + 1)..(n + 1) : /\ i \in I <=> StepIn(data, I, O, i)
                                                   /\ i \in O <=> StepOut(data, I, O, i)
    <2>1. CASE k = 0
      <3>1. (m + 1)..(n + 1) = {}
        BY <1>1, <2>1
      <3>2. QED
        BY <3>1
    <2>2. CASE k # 0
      <3>1. k - 1 \in 0..n /\ ~(k <= k - 1)
        BY <1>1, <1>6, <2>2
      <3>2. k - 1 \notin T
        BY <1>5, <3>1
      <3>3. \E I, O : Accepts(data, I, O, n + 1 - (k - 1))
        BY <3>1, <3>2 DEF T
      <3>4. n + 1 - (k - 1) = m + 1
        BY <1>1, <1>6
      <3> HIDE DEF m
      <3>5. QED
        BY <3>3, <3>4 DEF Accepts, n
    <2>3. QED
      BY <2>1, <2>2
  <1> HIDE DEF m
  <1> DEFINE J == I \cup (IF StepIn(data, I, O, m) THEN {m} ELSE {})
             P == O \cup (IF StepOut(data, I, O, m) THEN {m} ELSE {})
  <1>9. \A j \in (m + 1)..(n + 1) : (j \in I <=> j \in J) /\ (j \in O <=> j \in P)
    BY <1>1, <1>7
  <1>10. (m \in J <=> StepIn(data, I, O, m)) /\ (m \in P <=> StepOut(data, I, O, m))
    BY <1>1, <1>7, <1>8
  <1>11. J \subseteq m..(n + 1) /\ P \subseteq m..(n + 1)
    BY <1>1, <1>7, <1>8
  <1> HIDE DEF J, P
  <1>12. ASSUME NEW i \in m..(n + 1)
         PROVE  (i \in J <=> StepIn(data, J, P, i)) /\ (i \in P <=> StepOut(data, J, P, i))
    <2>1. i \in 1..(n + 1) /\ \A j \in (i + 1)..(n + 1) : j \in (m + 1)..(n + 1)
      BY <1>1, <1>7
    <2>2. /\ StepIn(data, I, O, i) <=> StepIn(data, J, P, i)
          /\ StepOut(data, I, O, i) <=> StepOut(data, J, P, i)
      BY <1>9, <2>1, StepLocal DEF n
    <2>3. CASE i = m
      BY <1>10, <2>2, <2>3
    <2>4. CASE i # m
      <3>1. i \in (m + 1)..(n + 1)
        BY <1>1, <1>7, <2>4
      <3>2. QED
        BY <1>8, <1>9, <2>2, <3>1
    <2>5. QED
      BY <2>3, <2>4
  <1>13. Accepts(data, J, P, m)
    BY <1>11, <1>12 DEF Accepts, n
  <1>14. QED
    BY <1>6, <1>13 DEF m

\* validJSONUnicode asks for the first position, outside a string.
LEMMA ScanAccepts ==
  ASSUME NEW S, NEW data \in Seq(S)
  PROVE  \E I, O : Accepts(data, I, O, 1) /\ (validJSONUnicode(data) <=> 1 \in O)
  <1> DEFINE n == Len(data)
             G(g) == [i \in 1..n + 1 |->
                       {inString \in {"yes", "no"} :
                          IF i > n THEN inString = "no"
                          ELSE IF data[i] = "quote" THEN Toggled(inString) \in g[i + 1]
                          ELSE IF inString = "no" \/ data[i] # "bslash" THEN inString \in g[i + 1]
                          ELSE EscapeEnd(data, i) # 0 /\ "yes" \in g[EscapeEnd(data, i)]}]
             F == CHOOSE g : g = G(g)
  <1>1. validJSONUnicode(data) = ("no" \in F[1])
    BY DEF validJSONUnicode
  <1>2. PICK I, O : Accepts(data, I, O, 1)
    BY AcceptsExist
  <1> DEFINE f == [i \in 1..n + 1 |-> (IF i \in I THEN {"yes"} ELSE {}) \cup (IF i \in O THEN {"no"} ELSE {})]
  <1>0. n \in Nat
    OBVIOUS
  <1>3. f = G(f)
    <2>0. \A i \in 1..n + 1 : ("yes" \in f[i] <=> i \in I) /\ ("no" \in f[i] <=> i \in O)
      OBVIOUS
    <2>0a. \A i \in 1..n + 1 : f[i] \subseteq {"yes", "no"}
      OBVIOUS
    <2>1. ASSUME NEW i \in 1..n + 1
          PROVE  f[i] = G(f)[i]
      <3> HIDE DEF f
      <3>1. "yes" \in f[i] <=> "yes" \in G(f)[i]
        <4>1. "yes" \in f[i] <=> StepIn(data, I, O, i)
          BY <1>2, <2>0 DEF Accepts
        <4>2. "yes" \in G(f)[i] <=> 
                (IF i > n THEN FALSE
                          ELSE IF data[i] = "quote" THEN "no" \in f[i + 1]
                          ELSE IF data[i] # "bslash" THEN "yes" \in f[i + 1]
                          ELSE EscapeEnd(data, i) # 0 /\ "yes" \in f[EscapeEnd(data, i)])
          BY DEF Toggled
        <4>3. QED
          BY <1>0, <2>0, <4>1, <4>2, EscapeEndBounds DEF StepIn
      <3>2. "no" \in f[i] <=> "no" \in G(f)[i]
        <4>1. "no" \in f[i] <=> StepOut(data, I, O, i)
          BY <1>2, <2>0 DEF Accepts
        <4>2. "no" \in G(f)[i] <=> 
                (IF i > n THEN TRUE
                          ELSE IF data[i] = "quote" THEN "yes" \in f[i + 1]
                          ELSE "no" \in f[i + 1])
          BY DEF Toggled
        <4>3. QED
          BY <1>0, <2>0, <4>1, <4>2, EscapeEndBounds DEF StepOut
      <3>3. G(f)[i] \subseteq {"yes", "no"}
        OBVIOUS
      <3>4. f[i] \subseteq {"yes", "no"}
        BY <2>0a
      <3> HIDE DEF G
      <3>5. \A x : x \in f[i] <=> x \in G(f)[i]
        BY <3>1, <3>2, <3>3, <3>4
      <3>6. QED
        BY <3>5, Zenon
    <2>2. f = [i \in 1..n + 1 |-> f[i]] /\ G(f) = [i \in 1..n + 1 |-> G(f)[i]]
      OBVIOUS
    <2> HIDE DEF f, G
    <2>3. QED
      BY <2>1, <2>2
  <1>4. F = G(F)
    <2> HIDE DEF f, G
    <2>1. QED
      BY <1>3
  <1> DEFINE FI == {i \in 1..n + 1 : "yes" \in F[i]}
             FO == {i \in 1..n + 1 : "no" \in F[i]}
  <1> HIDE DEF F
  <1>5. ASSUME NEW i \in 1..n + 1
        PROVE  /\ "yes" \in F[i] <=> 
                (IF i > n THEN FALSE
                          ELSE IF data[i] = "quote" THEN "no" \in F[i + 1]
                          ELSE IF data[i] # "bslash" THEN "yes" \in F[i + 1]
                          ELSE EscapeEnd(data, i) # 0 /\ "yes" \in F[EscapeEnd(data, i)])
               /\ "no" \in F[i] <=> 
                (IF i > n THEN TRUE
                          ELSE IF data[i] = "quote" THEN "yes" \in F[i + 1]
                          ELSE "no" \in F[i + 1])
    <2>1. F[i] = G(F)[i]
      <3> HIDE DEF G
      <3>1. QED
        BY <1>4
    <2>2. QED
      BY <2>1 DEF Toggled
  <1>6. ASSUME NEW i \in 1..n + 1
        PROVE  /\ i \in FI <=> StepIn(data, FI, FO, i)
               /\ i \in FO <=> StepOut(data, FI, FO, i)
    <2>1. (i \in FI <=> "yes" \in F[i]) /\ (i \in FO <=> "no" \in F[i])
      OBVIOUS
    <2>2. \A j \in 1..n + 1 : (j \in FI <=> "yes" \in F[j]) /\ (j \in FO <=> "no" \in F[j])
      OBVIOUS
    <2> HIDE DEF FI, FO
    <2>3. QED
      BY <1>0, <1>5, <2>1, <2>2, EscapeEndBounds DEF StepIn, StepOut
  <1>7. Accepts(data, FI, FO, 1)
    BY <1>6 DEF Accepts
  <1>8. 1 \in FO <=> "no" \in F[1]
    BY <1>0
  <1>9. QED
    BY <1>1, <1>7, <1>8

-----------------------------------------------------------------------------
\* b is the first k items of t one after the other, the i-th from p[i] on.
Laid(t, k, b, p) ==
  /\ p \in [1..(k + 1) -> Nat \ {0}] /\ p[1] = 1
  /\ \A i \in 1..k : p[i + 1] = p[i] + Len(t[i])
  /\ \A i \in 1..(k + 1) : \A j \in i..(k + 1) : p[i] <= p[j]
  /\ p[k + 1] = Len(b) + 1
  /\ \A i \in 1..k : \A j \in 1..Len(t[i]) :
       p[i] + (j - 1) \in 1..Len(b) /\ b[p[i] + (j - 1)] = t[i][j]

\* One more item follows at the end.
LEMMA LaidMore ==
  ASSUME NEW C, NEW t \in Seq(Seq(C)), NEW k \in Nat, k + 1 <= Len(t),
         NEW b \in Seq(C), NEW p, Laid(t, k, b, p)
  PROVE  /\ b \o t[k + 1] \in Seq(C)
         /\ \E q : Laid(t, k + 1, b \o t[k + 1], q)
  <1> DEFINE x == t[k + 1]
             c == b \o x
             q == [i \in 1..(k + 2) |-> IF i = k + 2 THEN p[k + 1] + Len(x) ELSE p[i]]
  <1>1. x \in Seq(C) /\ \A i \in 1..(k + 1) : t[i] \in Seq(C)
    OBVIOUS
  <1>2. /\ c \in Seq(C) /\ Len(c) = Len(b) + Len(x)
        /\ \A i \in 1..Len(b) : c[i] = b[i]
        /\ \A j \in 1..Len(x) : c[Len(b) + j] = x[j]
    <2> HIDE DEF x
    <2>1. c \in Seq(C) /\ Len(c) = Len(b) + Len(x) /\ Len(b) \in Nat /\ Len(x) \in Nat
      BY <1>1, ConcatProperties
    <2>2. \A i \in 1..(Len(b) + Len(x)) : c[i] = IF i <= Len(b) THEN b[i] ELSE x[i - Len(b)]
      BY <1>1, ConcatProperties
    <2> HIDE DEF c
    <2>3. ASSUME NEW j \in 1..Len(x) PROVE c[Len(b) + j] = x[j]
      <3>1. Len(b) + j \in 1..(Len(b) + Len(x)) /\ ~(Len(b) + j <= Len(b)) /\ Len(b) + j - Len(b) = j
        BY <2>1
      <3>2. QED
        BY <2>2, <3>1
    <2>4. QED
      BY <2>1, <2>2, <2>3
  <1>3. /\ p \in [1..(k + 1) -> Nat \ {0}] /\ p[1] = 1 /\ p[k + 1] = Len(b) + 1
        /\ \A i \in 1..k : p[i + 1] = p[i] + Len(t[i])
    BY DEF Laid
  <1>4. Len(b) \in Nat /\ Len(x) \in Nat
    BY <1>1
  <1>5. \A i \in 1..(k + 1) : q[i] = p[i]
    OBVIOUS
  <1>6. q[k + 2] = p[k + 1] + Len(x)
    OBVIOUS
  <1>7. q \in [1..((k + 1) + 1) -> Nat \ {0}]
    <2> HIDE DEF x
    <2>1. \A i \in 1..(k + 2) : (IF i = k + 2 THEN p[k + 1] + Len(x) ELSE p[i]) \in Nat \ {0}
      BY <1>3, <1>4
    <2>2. (k + 1) + 1 = k + 2
      OBVIOUS
    <2>3. QED
      BY <2>1, <2>2
  <1> HIDE DEF q, c, x
  <1>8. \A i \in 1..(k + 1) : q[i + 1] = q[i] + Len(t[i])
    <2>1. ASSUME NEW i \in 1..(k + 1) PROVE q[i + 1] = q[i] + Len(t[i])
      <3>1. CASE i = k + 1
        BY <1>5, <1>6, <3>1 DEF x
      <3>2. CASE i # k + 1
        <4>1. i \in 1..k /\ i + 1 \in 1..(k + 1)
          BY <3>2
        <4>2. QED
          BY <1>3, <1>5, <4>1
      <3>3. QED
        BY <3>1, <3>2
    <2>2. QED
      BY <2>1
  <1>9. ASSUME NEW i \in 1..(k + 1), NEW j \in 1..Len(t[i])
        PROVE  q[i] + (j - 1) \in 1..Len(c) /\ c[q[i] + (j - 1)] = t[i][j]
    <2>1. CASE i = k + 1
      <3>1. q[i] = Len(b) + 1 /\ t[i] = x
        BY <1>3, <1>5, <2>1 DEF x
      <3>2. q[i] + (j - 1) = Len(b) + j /\ j \in 1..Len(x)
        BY <1>4, <3>1
      <3>3. QED
        BY <1>2, <1>4, <3>1, <3>2, SMTT(60)
    <2>2. CASE i # k + 1
      <3>1. i \in 1..k
        BY <2>2
      <3>2. p[i] + (j - 1) \in 1..Len(b) /\ b[p[i] + (j - 1)] = t[i][j] /\ q[i] = p[i]
        BY <1>5, <3>1 DEF Laid
      <3>3. QED
        BY <1>2, <1>4, <3>2, SMTT(60)
    <2>3. QED
      BY <2>1, <2>2
  <1>10. q[1] = 1 /\ q[(k + 1) + 1] = Len(c) + 1
    <2>1. 1 \in 1..(k + 1) /\ (k + 1) + 1 = k + 2
      OBVIOUS
    <2>2. QED
      BY <1>2, <1>3, <1>4, <1>5, <1>6, <2>1, SMTT(60)
  <1>11. Laid(t, k + 1, c, q)
    <2>1. ASSUME NEW i \in 1..((k + 1) + 1), NEW j \in i..((k + 1) + 1) PROVE q[i] <= q[j]
      <3>1. CASE i = k + 2
        <4>1. q[k + 2] \in Nat /\ j = k + 2
          BY <1>7, <3>1
        <4>2. QED
          BY <3>1, <4>1
      <3>2. CASE i # k + 2 /\ j # k + 2
        <4>1. i \in 1..(k + 1) /\ j \in i..(k + 1) /\ j \in 1..(k + 1)
          BY <3>2
        <4>2. p[i] <= p[j]
          BY <4>1 DEF Laid
        <4>3. QED
          BY <1>5, <4>1, <4>2
      <3>3. CASE i # k + 2 /\ j = k + 2
        <4>1. i \in 1..(k + 1) /\ k + 1 \in i..(k + 1)
          BY <3>3
        <4>2. p[i] <= p[k + 1]
          BY <4>1 DEF Laid
        <4>3. p[i] \in Nat /\ p[k + 1] \in Nat
          BY <4>1, <1>3
        <4>4. QED
          BY <1>4, <1>5, <1>6, <3>3, <4>1, <4>2, <4>3, SMTT(60)
      <3>4. QED
        BY <3>1, <3>2, <3>3
    <2>2. QED
      BY <1>7, <1>8, <1>9, <1>10, <2>1 DEF Laid
  <1>12. QED
    BY <1>2, <1>11 DEF c, x

\* f[i] is the first i items of t one after the other.
Flattens(C, t, f, k) ==
  /\ f \in [1..k -> Seq(C)]
  /\ \A i \in 1..k : f[i] = IF i = 1 THEN t[i] ELSE f[i - 1] \o t[i]

\* All prefixes of a text can be put together, one item after the other.
LEMMA FlattensExist ==
  ASSUME NEW C, NEW t \in Seq(Seq(C))
  PROVE  \E f : Flattens(C, t, f, Len(t))
  <1> DEFINE n == Len(t)
             T == {m \in 0..n : ~ \E f : Flattens(C, t, f, m)}
  <1>0. n \in Nat /\ n \in 0..n
    OBVIOUS
  <1>1. SUFFICES T = {}
    BY <1>0
  <1>2. SUFFICES ASSUME T # {} PROVE FALSE
    OBVIOUS
  <1>3. T \subseteq Nat
    OBVIOUS
  <1> HIDE DEF T
  <1>4. PICK m \in T : \A y \in T : m <= y
    BY <1>2, <1>3, Least
  <1>5. m \in 0..n /\ ~ \E f : Flattens(C, t, f, m)
    BY DEF T
  <1>6. CASE m = 0
    <2>1. 1..0 = {}
      OBVIOUS
    <2>2. Flattens(C, t, [i \in 1..0 |-> <<>>], 0)
      BY <2>1 DEF Flattens
    <2>3. QED
      BY <1>5, <1>6, <2>2
  <1>7. CASE m # 0
    <2>1. m - 1 \in 0..n /\ m \in 1..n /\ ~(m <= m - 1)
      BY <1>0, <1>5, <1>7
    <2>2. PICK f : Flattens(C, t, f, m - 1)
      BY <1>4, <2>1 DEF T
    <2> DEFINE last == IF m = 1 THEN t[m] ELSE f[m - 1] \o t[m]
               g == [i \in 1..m |-> IF i = m THEN last ELSE f[i]]
    <2>3. t[m] \in Seq(C) /\ last \in Seq(C)
      <3>1. t[m] \in Seq(C)
        BY <2>1
      <3>2. m # 1 => f[m - 1] \in Seq(C)
        BY <2>1, <2>2 DEF Flattens
      <3>3. QED
        BY <3>1, <3>2
    <2> HIDE DEF last
    <2>4. (\A i \in 1..(m - 1) : g[i] = f[i]) /\ g[m] = last
      BY <2>1
    <2>5. g \in [1..m -> Seq(C)]
      BY <2>1, <2>2, <2>3 DEF Flattens
    <2> HIDE DEF g
    <2>6. ASSUME NEW i \in 1..m PROVE g[i] = IF i = 1 THEN t[i] ELSE g[i - 1] \o t[i]
      <3>1. CASE i = m
        <4>1. i # 1 => g[i - 1] = f[i - 1]
          BY <2>1, <2>4, <3>1
        <4>2. QED
          BY <2>4, <3>1, <4>1 DEF last
      <3>2. CASE i # m
        <4>1. i \in 1..(m - 1) /\ (i # 1 => i - 1 \in 1..(m - 1))
          BY <2>1, <3>2
        <4>2. QED
          BY <2>2, <2>4, <4>1 DEF Flattens
      <3>3. QED
        BY <3>1, <3>2
    <2>7. Flattens(C, t, g, m)
      BY <2>5, <2>6 DEF Flattens
    <2>8. QED
      BY <1>5, <2>7
  <1>8. QED
    BY <1>6, <1>7

\* FlattenSeq lays the items one after the other.
LEMMA FlattenLaid ==
  ASSUME NEW C, NEW t \in Seq(Seq(C))
  PROVE  /\ FlattenSeq(t) \in Seq(C)
         /\ \E p : Laid(t, Len(t), FlattenSeq(t), p)
  <1> DEFINE n == Len(t)
             G(g) == [i \in 1..Len(t) |-> IF i = 1 THEN t[i] ELSE g[i - 1] \o t[i]]
             F == CHOOSE g : g = G(g)
  <1>1. n \in Nat
    OBVIOUS
  <1>2. CASE n = 0
    <2>1. FlattenSeq(t) = t
      BY <1>2 DEF FlattenSeq
    <2>2. t = <<>>
      BY <1>2
    <2> DEFINE p == [i \in 1..(0 + 1) |-> 1]
    <2>3. p \in [1..(0 + 1) -> Nat \ {0}] /\ p[1] = 1 /\ p[0 + 1] = 1 /\ 1..0 = {}
      OBVIOUS
    <2> HIDE DEF p
    <2>4. Laid(t, 0, t, p)
      BY <1>2, <2>3 DEF Laid
    <2>5. t \in Seq(C)
      BY <2>2
    <2>6. QED
      BY <1>2, <2>1, <2>4, <2>5
  <1>3. CASE n # 0
    <2>1. FlattenSeq(t) = F[Len(t)]
      BY <1>3 DEF FlattenSeq
    <2>2. PICK f : Flattens(C, t, f, n)
      BY FlattensExist
    <2>3. f = G(f)
      <3>1. f = [i \in 1..n |-> f[i]]
        BY <2>2 DEF Flattens
      <3>2. \A i \in 1..n : f[i] = IF i = 1 THEN t[i] ELSE f[i - 1] \o t[i]
        BY <2>2 DEF Flattens
      <3>3. QED
        BY <3>1, <3>2
    <2>4. F = G(F)
      <3> HIDE DEF G
      <3>1. QED
        BY <2>3
    <2> HIDE DEF F
    <2>5. \A i \in 1..n : F[i] = IF i = 1 THEN t[i] ELSE F[i - 1] \o t[i]
      <3>1. ASSUME NEW i \in 1..n PROVE F[i] = G(F)[i]
        <4> HIDE DEF G
        <4>1. QED
          BY <2>4
      <3>2. QED
        BY <3>1
    <2> DEFINE T == {m \in 1..n : ~(F[m] \in Seq(C) /\ \E p : Laid(t, m, F[m], p))}
    <2>6. T \subseteq Nat
      OBVIOUS
    <2>7. T = {}
      <3>1. SUFFICES ASSUME T # {} PROVE FALSE
        OBVIOUS
      <3> HIDE DEF T
      <3>2. PICK m \in T : \A y \in T : m <= y
        BY <2>6, <3>1, Least
      <3>3. m \in 1..n /\ ~(F[m] \in Seq(C) /\ \E p : Laid(t, m, F[m], p))
        BY DEF T
      <3>4. CASE m = 1
        <4>1. F[1] = t[1] /\ t[1] \in Seq(C)
          BY <2>5, <3>3, <3>4
        <4> DEFINE x == t[1]
                   p == [i \in 1..(1 + 1) |-> IF i = 1 THEN 1 ELSE 1 + Len(x)]
        <4>2. Len(x) \in Nat
          BY <4>1
        <4> HIDE DEF x
        <4>3. p \in [1..(1 + 1) -> Nat \ {0}] /\ p[1] = 1 /\ p[1 + 1] = 1 + Len(x)
          BY <4>2
        <4> HIDE DEF p
        <4>4. Laid(t, 1, x, p)
          <5>1. 1..1 = {1}
            OBVIOUS
          <5>2. \A j \in 1..Len(x) : p[1] + (j - 1) \in 1..Len(x) /\ x[p[1] + (j - 1)] = x[j]
            BY <4>2, <4>3
          <5>3. QED
            BY <4>2, <4>3, <5>1, <5>2 DEF Laid, x
        <4>5. QED
          BY <3>3, <3>4, <4>1, <4>4 DEF x
      <3>5. CASE m # 1
        <4>1. m - 1 \in 1..n /\ m - 1 \in Nat /\ (m - 1) + 1 = m /\ m <= n /\ ~(m <= m - 1)
          BY <1>1, <3>3, <3>5
        <4>2. F[m - 1] \in Seq(C) /\ \E p : Laid(t, m - 1, F[m - 1], p)
          BY <3>2, <4>1 DEF T
        <4>3. F[m] = F[m - 1] \o t[m]
          BY <2>5, <3>3, <3>5
        <4>4. F[m - 1] \o t[(m - 1) + 1] \in Seq(C) /\ \E q : Laid(t, (m - 1) + 1, F[m - 1] \o t[(m - 1) + 1], q)
          BY <4>1, <4>2, LaidMore
        <4>5. QED
          BY <3>3, <4>1, <4>3, <4>4
      <3>6. QED
        BY <3>4, <3>5
    <2>8. n \in 1..n
      BY <1>1, <1>3
    <2>9. QED
      BY <2>1, <2>7, <2>8
  <1>4. QED
    BY <1>2, <1>3

Chars == {"quote", "bslash", "a", "u", "g", "0", "7", "8", "B", "C", "D", "d", "E", "F"}

Units == HighUnits \cup LowUnits \cup OtherUnits \cup NoUnits

Escapes(units) == {Escape(u) : u \in units}

\* The item x stands in data from a on.
At(data, a, x) ==
  /\ a + Len(x) <= Len(data) + 1
  /\ \A j \in 1..Len(x) : data[a + (j - 1)] = x[j]

\* The digits one by one.
LEMMA HexValues ==
  /\ HexValue["0"] = 0 /\ HexValue["7"] = 7 /\ HexValue["8"] = 8 /\ HexValue["B"] = 11
  /\ HexValue["C"] = 12 /\ HexValue["D"] = 13 /\ HexValue["d"] = 13 /\ HexValue["E"] = 14
  /\ HexValue["F"] = 15
  BY DEF HexValue, HexDigits

\* An escape is six bytes.
LEMMA EscapeBytes ==
  ASSUME NEW u, NEW c1, NEW c2, NEW c3, NEW c4, u = <<c1, c2, c3, c4>>
  PROVE  Escape(u) = <<"bslash", "u", c1, c2, c3, c4>>
  BY DEF Escape

\* A unit is four bytes.
LEMMA UnitsAre ==
  ASSUME NEW u \in Units
  PROVE  \E c1, c2, c3, c4 \in Chars : u = <<c1, c2, c3, c4>>
  <1>1. /\ "g" \in Chars /\ "0" \in Chars /\ "7" \in Chars /\ "8" \in Chars /\ "B" \in Chars
        /\ "C" \in Chars /\ "D" \in Chars /\ "d" \in Chars /\ "E" \in Chars /\ "F" \in Chars
    BY DEF Chars
  <1>2. u \in HighUnits => \E c1, c2, c3, c4 \in Chars : u = <<c1, c2, c3, c4>>
    BY <1>1, Zenon DEF HighUnits
  <1>3. u \in LowUnits => \E c1, c2, c3, c4 \in Chars : u = <<c1, c2, c3, c4>>
    BY <1>1, Zenon DEF LowUnits
  <1>4. u \in OtherUnits => \E c1, c2, c3, c4 \in Chars : u = <<c1, c2, c3, c4>>
    BY <1>1, Zenon DEF OtherUnits
  <1>5. u \in NoUnits => \E c1, c2, c3, c4 \in Chars : u = <<c1, c2, c3, c4>>
    BY <1>1, Zenon DEF NoUnits
  <1>6. QED
    BY <1>2, <1>3, <1>4, <1>5 DEF Units

\* An escape byte by byte.
LEMMA Escape6 ==
  ASSUME NEW u \in Units
  PROVE  /\ Escape(u) \in Seq(Chars) /\ Len(Escape(u)) = 6
         /\ Escape(u)[1] = "bslash" /\ Escape(u)[2] = "u"
         /\ \A k \in 0..3 : Escape(u)[k + 3] = u[k + 1]
  <1>1. PICK c1 \in Chars, c2 \in Chars, c3 \in Chars, c4 \in Chars : u = <<c1, c2, c3, c4>>
    BY UnitsAre
  <1>2. Escape(u) = <<"bslash", "u", c1, c2, c3, c4>>
    BY <1>1, EscapeBytes
  <1>3. "bslash" \in Chars /\ "u" \in Chars
    BY DEF Chars
  <1>4. <<"bslash", "u", c1, c2, c3, c4>> \in Seq(Chars)
    BY <1>3
  <1>5. \A k \in 0..3 : Escape(u)[k + 3] = u[k + 1]
    <2>1. \A k \in 0..3 : k = 0 \/ k = 1 \/ k = 2 \/ k = 3
      OBVIOUS
    <2>2. QED
      BY <1>1, <1>2, <2>1
  <1>6. QED
    BY <1>2, <1>4, <1>5

\* What the four digits of a unit give.
LEMMA ParseUnit ==
  ASSUME NEW S, NEW data \in Seq(S), NEW a \in Nat, a + 3 <= Len(data), NEW u \in Units,
         \A k \in 0..3 : data[a + k] = u[k + 1]
  PROVE  /\ u \in HighUnits => HighSurrogate(parseHex4(data, a)) /\ ~LowSurrogate(parseHex4(data, a))
                               /\ parseHex4(data, a) # -1
         /\ u \in LowUnits => LowSurrogate(parseHex4(data, a))
         /\ u \in OtherUnits => ~HighSurrogate(parseHex4(data, a)) /\ ~LowSurrogate(parseHex4(data, a))
                               /\ parseHex4(data, a) # -1
         /\ u \in NoUnits => parseHex4(data, a) = -1
  <1>1. data[a + 0] = u[1] /\ data[a + 1] = u[2] /\ data[a + 2] = u[3] /\ data[a + 3] = u[4]
    OBVIOUS
  <1> DEFINE v == parseHex4(data, a)
  <1>2. ASSUME u[1] \in HexDigits, u[2] \in HexDigits, u[3] \in HexDigits, u[4] \in HexDigits
        PROVE  v = HexValue[u[1]] * 4096 + HexValue[u[2]] * 256 + HexValue[u[3]] * 16 + HexValue[u[4]]
    <2>1. ~(a + 3 > Len(data)) /\ \A k \in 0..3 : data[a + k] \in HexDigits
      BY <1>1, <1>2
    <2>2. QED
      BY <1>1, <2>1 DEF parseHex4
  <1>3. u \in NoUnits => v = -1
    <2>1. u \in NoUnits => u[3] = "g"
      BY DEF NoUnits
    <2>2. "g" \notin HexDigits
      BY DEF HexDigits
    <2>3. u \in NoUnits => \E k \in 0..3 : data[a + k] \notin HexDigits
      BY <1>1, <2>1, <2>2
    <2>4. QED
      BY <2>3 DEF parseHex4
  <1> DEFINE Digit(c, x) == c \in HexDigits /\ HexValue[c] = x
  <1>3a. /\ Digit("0", 0) /\ Digit("7", 7) /\ Digit("8", 8) /\ Digit("B", 11) /\ Digit("C", 12)
         /\ Digit("D", 13) /\ Digit("d", 13) /\ Digit("E", 14) /\ Digit("F", 15)
    BY HexValues DEF HexDigits
  <1>3b. ASSUME NEW x1 \in Nat, NEW x2 \in Nat, NEW x3 \in Nat, NEW x4 \in Nat,
                Digit(u[1], x1), Digit(u[2], x2), Digit(u[3], x3), Digit(u[4], x4)
         PROVE  v = x1 * 4096 + x2 * 256 + x3 * 16 + x4
    BY <1>2, <1>3b
  <1> HIDE DEF Digit, v
  <1>4. u = <<"D", "8", "0", "0">> => v = 55296
    <2>1. SUFFICES ASSUME u = <<"D", "8", "0", "0">> PROVE v = 55296
      OBVIOUS
    <2>2. u[1] = "D" /\ u[2] = "8" /\ u[3] = "0" /\ u[4] = "0"
      BY <2>1
    <2>3. Digit(u[1], 13) /\ Digit(u[2], 8) /\ Digit(u[3], 0) /\ Digit(u[4], 0)
      BY <1>3a, <2>2
    <2>4. v = 13 * 4096 + 8 * 256 + 0 * 16 + 0
      BY <1>3b, <2>3
    <2>5. QED
      BY <2>4
  <1>5. u = <<"d", "B", "F", "F">> => v = 56319
    <2>1. SUFFICES ASSUME u = <<"d", "B", "F", "F">> PROVE v = 56319
      OBVIOUS
    <2>2. u[1] = "d" /\ u[2] = "B" /\ u[3] = "F" /\ u[4] = "F"
      BY <2>1
    <2>3. Digit(u[1], 13) /\ Digit(u[2], 11) /\ Digit(u[3], 15) /\ Digit(u[4], 15)
      BY <1>3a, <2>2
    <2>4. v = 13 * 4096 + 11 * 256 + 15 * 16 + 15
      BY <1>3b, <2>3
    <2>5. QED
      BY <2>4
  <1>6. u = <<"D", "C", "0", "0">> => v = 56320
    <2>1. SUFFICES ASSUME u = <<"D", "C", "0", "0">> PROVE v = 56320
      OBVIOUS
    <2>2. u[1] = "D" /\ u[2] = "C" /\ u[3] = "0" /\ u[4] = "0"
      BY <2>1
    <2>3. Digit(u[1], 13) /\ Digit(u[2], 12) /\ Digit(u[3], 0) /\ Digit(u[4], 0)
      BY <1>3a, <2>2
    <2>4. v = 13 * 4096 + 12 * 256 + 0 * 16 + 0
      BY <1>3b, <2>3, SMTT(60)
    <2>5. QED
      BY <2>4
  <1>7. u = <<"D", "F", "F", "F">> => v = 57343
    <2>1. SUFFICES ASSUME u = <<"D", "F", "F", "F">> PROVE v = 57343
      OBVIOUS
    <2>2. u[1] = "D" /\ u[2] = "F" /\ u[3] = "F" /\ u[4] = "F"
      BY <2>1
    <2>3. Digit(u[1], 13) /\ Digit(u[2], 15) /\ Digit(u[3], 15) /\ Digit(u[4], 15)
      BY <1>3a, <2>2
    <2>4. v = 13 * 4096 + 15 * 256 + 15 * 16 + 15
      BY <1>3b, <2>3
    <2>5. QED
      BY <2>4
  <1>8. u = <<"D", "7", "F", "F">> => v = 55295
    <2>1. SUFFICES ASSUME u = <<"D", "7", "F", "F">> PROVE v = 55295
      OBVIOUS
    <2>2. u[1] = "D" /\ u[2] = "7" /\ u[3] = "F" /\ u[4] = "F"
      BY <2>1
    <2>3. Digit(u[1], 13) /\ Digit(u[2], 7) /\ Digit(u[3], 15) /\ Digit(u[4], 15)
      BY <1>3a, <2>2
    <2>4. v = 13 * 4096 + 7 * 256 + 15 * 16 + 15
      BY <1>3b, <2>3
    <2>5. QED
      BY <2>4
  <1>9. u = <<"E", "0", "0", "0">> => v = 57344
    <2>1. SUFFICES ASSUME u = <<"E", "0", "0", "0">> PROVE v = 57344
      OBVIOUS
    <2>2. u[1] = "E" /\ u[2] = "0" /\ u[3] = "0" /\ u[4] = "0"
      BY <2>1
    <2>3. Digit(u[1], 14) /\ Digit(u[2], 0) /\ Digit(u[3], 0) /\ Digit(u[4], 0)
      BY <1>3a, <2>2
    <2>4. v = 14 * 4096 + 0 * 256 + 0 * 16 + 0
      BY <1>3b, <2>3
    <2>5. QED
      BY <2>4
  <1>10. u \in HighUnits => HighSurrogate(v) /\ ~LowSurrogate(v) /\ v # -1
    BY <1>4, <1>5 DEF HighUnits, HighSurrogate, LowSurrogate
  <1>11. u \in LowUnits => LowSurrogate(v)
    BY <1>6, <1>7 DEF LowUnits, LowSurrogate
  <1>12. u \in OtherUnits => ~HighSurrogate(v) /\ ~LowSurrogate(v) /\ v # -1
    BY <1>8, <1>9 DEF OtherUnits, HighSurrogate, LowSurrogate
  <1>13. QED
    BY <1>3, <1>10, <1>11, <1>12 DEF v

-----------------------------------------------------------------------------
LowAt(data, b) ==
  /\ b + 5 <= Len(data) /\ data[b] = "bslash" /\ data[b + 1] = "u"
  /\ LowSurrogate(parseHex4(data, b + 2))

\* How the scan goes on from an escape inside a string.
LEMMA PassEscape ==
  ASSUME NEW S, NEW data \in Seq(S), NEW I, NEW O, Accepts(data, I, O, 1),
         NEW a \in 1..Len(data), NEW u \in Units, At(data, a, Escape(u))
  PROVE  /\ u \in OtherUnits => (a \in I <=> a + 6 \in I)
         /\ u \in LowUnits \cup NoUnits => a \notin I
         /\ u \in HighUnits => (a \in I <=> LowAt(data, a + 6) /\ a + 12 \in I)
  <1> DEFINE v == parseHex4(data, a + 2)
             e == EscapeEnd(data, a)
  <1>1. Len(Escape(u)) = 6 /\ Escape(u)[1] = "bslash" /\ Escape(u)[2] = "u"
    BY Escape6
  <1>2. /\ a + 5 <= Len(data) /\ data[a] = "bslash" /\ data[a + 1] = "u"
        /\ \A k \in 0..3 : data[(a + 2) + k] = u[k + 1]
    <2>1. a + 6 <= Len(data) + 1 /\ \A j \in 1..6 : data[a + (j - 1)] = Escape(u)[j]
      BY <1>1 DEF At
    <2>2. ASSUME NEW k \in 0..3 PROVE data[(a + 2) + k] = u[k + 1]
      <3>1. k + 3 \in 1..6 /\ a + ((k + 3) - 1) = (a + 2) + k
        OBVIOUS
      <3>2. Escape(u)[k + 3] = u[k + 1]
        BY Escape6
      <3>3. QED
        BY <2>1, <3>1, <3>2
    <2>3. data[a + (1 - 1)] = "bslash" /\ data[a + (2 - 1)] = "u"
      BY <1>1, <2>1
    <2>4. a + (1 - 1) = a /\ a + (2 - 1) = a + 1
      OBVIOUS
    <2>5. QED
      BY <2>1, <2>2, <2>3, <2>4
  <1>3. /\ u \in HighUnits => HighSurrogate(v) /\ ~LowSurrogate(v) /\ v # -1
        /\ u \in LowUnits => LowSurrogate(v)
        /\ u \in OtherUnits => ~HighSurrogate(v) /\ ~LowSurrogate(v) /\ v # -1
        /\ u \in NoUnits => v = -1
    BY <1>2, ParseUnit
  <1>4. e = IF v = -1 \/ LowSurrogate(v) THEN 0
            ELSE IF ~HighSurrogate(v) THEN a + 6
            ELSE IF \/ a + 11 > Len(data) \/ data[a + 6] # "bslash" \/ data[a + 7] # "u"
                    \/ ~LowSurrogate(parseHex4(data, a + 8)) THEN 0
            ELSE a + 12
    BY <1>2 DEF EscapeEnd
  <1>5. a \in I <=> e # 0 /\ e \in I
    <2>1. a \in I <=> StepIn(data, I, O, a)
      BY DEF Accepts
    <2>2. QED
      BY <1>2, <2>1 DEF StepIn
  <1>6. (a + 6) + 5 = a + 11 /\ (a + 6) + 1 = a + 7 /\ (a + 6) + 2 = a + 8 /\ Len(data) \in Nat
    OBVIOUS
  <1> HIDE DEF v, e
  <1>7. u \in OtherUnits => e = a + 6
    BY <1>3, <1>4
  <1>8. u \in LowUnits \cup NoUnits => e = 0
    BY <1>3, <1>4
  <1>9. u \in HighUnits => e = IF LowAt(data, a + 6) THEN a + 12 ELSE 0
    BY <1>3, <1>4, <1>6 DEF LowAt
  <1>10. a + 12 # 0 /\ a + 6 # 0
    OBVIOUS
  <1>11. QED
    BY <1>5, <1>7, <1>8, <1>9, <1>10

\* The other items.
LEMMA PassPlain ==
  ASSUME NEW S, NEW data \in Seq(S), NEW I, NEW O, Accepts(data, I, O, 1),
         NEW a \in 1..Len(data)
  PROVE  /\ At(data, a, Quote) => (a \in I <=> a + 1 \in O) /\ (a \in O <=> a + 1 \in I)
         /\ At(data, a, <<"a">>) => (a \in I <=> a + 1 \in I) /\ (a \in O <=> a + 1 \in O)
         /\ At(data, a, <<"u", "D", "8", "0", "0">>) => (a \in I <=> a + 5 \in I)
         /\ At(data, a, <<"bslash", "bslash">>) => (a \in I <=> a + 2 \in I)
         /\ At(data, a, <<"bslash", "quote">>) => (a \in I <=> a + 2 \in I)
  <1>1. \A i \in 1..Len(data) : (i \in I <=> StepIn(data, I, O, i)) /\ (i \in O <=> StepOut(data, I, O, i))
    BY DEF Accepts
  <1>2. \A i \in 1..Len(data) : data[i] # "quote" /\ data[i] # "bslash" => (i \in I <=> i + 1 \in I)
    BY <1>1 DEF StepIn
  <1>3. \A i \in 1..Len(data) : data[i] # "quote" => (i \in O <=> i + 1 \in O)
    BY <1>1 DEF StepOut
  <1>4. \A i \in 1..Len(data) : data[i] = "quote" => (i \in I <=> i + 1 \in O) /\ (i \in O <=> i + 1 \in I)
    BY <1>1 DEF StepIn, StepOut
  <1>5. ASSUME NEW z, At(data, a, <<z>>) PROVE data[a] = z
    <2>1. Len(<<z>>) = 1 /\ <<z>>[1] = z /\ a + (1 - 1) = a
      OBVIOUS
    <2>2. \A j \in 1..1 : data[a + (j - 1)] = <<z>>[j]
      BY <1>5, <2>1 DEF At
    <2>3. QED
      BY <2>1, <2>2
  <1>6. At(data, a, Quote) => data[a] = "quote"
    BY <1>5 DEF Quote
  <1>7. At(data, a, <<"a">>) => data[a] = "a"
    BY <1>5
  <1>8. ASSUME At(data, a, <<"u", "D", "8", "0", "0">>) PROVE a \in I <=> a + 5 \in I
    <2> DEFINE x == <<"u", "D", "8", "0", "0">>
    <2>1. Len(x) = 5 /\ x[1] = "u" /\ x[2] = "D" /\ x[3] = "8" /\ x[4] = "0" /\ x[5] = "0"
      OBVIOUS
    <2>2. At(data, a, x)
      BY <1>8
    <2> HIDE DEF x
    <2>3. \A j \in 1..5 : a + (j - 1) \in 1..Len(data) /\ data[a + (j - 1)] = x[j]
      <3>1. a + 5 <= Len(data) + 1 /\ \A j \in 1..5 : data[a + (j - 1)] = x[j]
        BY <2>1, <2>2 DEF At
      <3>2. QED
        BY <3>1, SMTT(60)
    <2>4. \A j \in 1..5 : x[j] # "quote" /\ x[j] # "bslash"
      <3>1. \A j \in 1..5 : j = 1 \/ j = 2 \/ j = 3 \/ j = 4 \/ j = 5
        OBVIOUS
      <3>2. QED
        BY <2>1, <3>1
    <2>5. \A j \in 1..5 : a + (j - 1) \in I <=> (a + (j - 1)) + 1 \in I
      <3>1. ASSUME NEW j \in 1..5 PROVE a + (j - 1) \in I <=> (a + (j - 1)) + 1 \in I
        <4> DEFINE i == a + (j - 1)
        <4>1. i \in 1..Len(data) /\ data[i] # "quote" /\ data[i] # "bslash"
          BY <2>3, <2>4
        <4> HIDE DEF i
        <4>2. i \in I <=> i + 1 \in I
          BY <1>2, <4>1
        <4>3. QED
          BY <4>2 DEF i
      <3>2. QED
        BY <3>1
    <2>6. a \in I <=> a + 1 \in I
      BY <2>5
    <2>7. a + 1 \in I <=> a + 2 \in I
      BY <2>5
    <2>8. a + 2 \in I <=> a + 3 \in I
      BY <2>5
    <2>9. a + 3 \in I <=> a + 4 \in I
      BY <2>5
    <2>10. a + 4 \in I <=> a + 5 \in I
      BY <2>5
    <2>11. QED
      BY <2>6, <2>7, <2>8, <2>9, <2>10
  <1>9. ASSUME a + 1 <= Len(data), data[a] = "bslash", data[a + 1] # "u"
        PROVE  a \in I <=> a + 2 \in I
    <2>1. EscapeEnd(data, a) = a + 2
      BY <1>9 DEF EscapeEnd
    <2>2. QED
      BY <1>1, <1>9, <2>1 DEF StepIn
  <1>10. ASSUME NEW z, At(data, a, <<"bslash", z>>)
         PROVE  a + 1 <= Len(data) /\ data[a] = "bslash" /\ data[a + 1] = z
    <2> DEFINE x == <<"bslash", z>>
    <2>1. Len(x) = 2 /\ x[1] = "bslash" /\ x[2] = z
      OBVIOUS
    <2>2. At(data, a, x)
      BY <1>10
    <2> HIDE DEF x
    <2>3. \A j \in 1..2 : a + (j - 1) \in 1..Len(data) /\ data[a + (j - 1)] = x[j]
      <3>1. a + 2 <= Len(data) + 1 /\ \A j \in 1..2 : data[a + (j - 1)] = x[j]
        BY <2>1, <2>2 DEF At
      <3>2. QED
        BY <3>1
    <2>4. a + (1 - 1) = a /\ a + (2 - 1) = a + 1
      OBVIOUS
    <2>5. QED
      BY <2>1, <2>3, <2>4
  <1>11. QED
    BY <1>2, <1>3, <1>4, <1>6, <1>7, <1>8, <1>9, <1>10

\* The items.
LEMMA Items ==
  ASSUME NEW x \in InsideItems
  PROVE  \/ x = Quote \/ x = <<"a">> \/ x = <<"u", "D", "8", "0", "0">>
         \/ x = <<"bslash", "bslash">> \/ x = <<"bslash", "quote">>
         \/ \E u \in Units : x = Escape(u)
  <1>1. InsideItems = {Quote, <<"a">>, <<"u", "D", "8", "0", "0">>, <<"bslash", "bslash">>, <<"bslash", "quote">>}
                      \cup {Escape(u) : u \in Units}
    BY Zenon DEF InsideItems, Units
  <1>2. QED
    BY <1>1, Zenon

\* An item is one to six bytes.
LEMMA ItemBytes ==
  ASSUME NEW x \in InsideItems
  PROVE  x \in Seq(Chars) /\ Len(x) \in Nat /\ 1 <= Len(x) /\ Len(x) <= 6
  <1>1. /\ "quote" \in Chars /\ "bslash" \in Chars /\ "a" \in Chars /\ "u" \in Chars
        /\ "D" \in Chars /\ "8" \in Chars /\ "0" \in Chars
    BY DEF Chars
  <1>2a. CASE x = Quote
    <2> DEFINE y == Quote
    <2>1. y \in Seq(Chars) /\ Len(y) \in Nat /\ 1 <= Len(y) /\ Len(y) <= 6
      BY <1>1 DEF Quote
    <2>2. x = y
      BY <1>2a
    <2> HIDE DEF y
    <2>3. QED
      BY <2>1, <2>2
  <1>2b. CASE x = <<"a">>
    <2> DEFINE y == <<"a">>
    <2>1. y \in Seq(Chars) /\ Len(y) \in Nat /\ 1 <= Len(y) /\ Len(y) <= 6
      BY <1>1
    <2>2. x = y
      BY <1>2b
    <2> HIDE DEF y
    <2>3. QED
      BY <2>1, <2>2
  <1>3. CASE x = <<"u", "D", "8", "0", "0">>
    <2> DEFINE y == <<"u", "D", "8", "0", "0">>
    <2>1. y \in Seq(Chars) /\ Len(y) \in Nat /\ 1 <= Len(y) /\ Len(y) <= 6
      BY <1>1
    <2>2. x = y
      BY <1>3
    <2> HIDE DEF y
    <2>3. QED
      BY <2>1, <2>2
  <1>4a. CASE x = <<"bslash", "bslash">>
    <2> DEFINE y == <<"bslash", "bslash">>
    <2>1. y \in Seq(Chars) /\ Len(y) \in Nat /\ 1 <= Len(y) /\ Len(y) <= 6
      BY <1>1
    <2>2. x = y
      BY <1>4a
    <2> HIDE DEF y
    <2>3. QED
      BY <2>1, <2>2
  <1>4b. CASE x = <<"bslash", "quote">>
    <2> DEFINE y == <<"bslash", "quote">>
    <2>1. y \in Seq(Chars) /\ Len(y) \in Nat /\ 1 <= Len(y) /\ Len(y) <= 6
      BY <1>1
    <2>2. x = y
      BY <1>4b
    <2> HIDE DEF y
    <2>3. QED
      BY <2>1, <2>2
  <1>5. CASE \E u \in Units : x = Escape(u)
    <2>1. PICK u \in Units : x = Escape(u)
      BY <1>5
    <2> DEFINE y == Escape(u)
    <2>2. y \in Seq(Chars) /\ Len(y) \in Nat /\ 1 <= Len(y) /\ Len(y) <= 6
      <3>1. y \in Seq(Chars) /\ Len(y) = 6
        BY Escape6
      <3> DEFINE l == Len(y)
      <3>2. l = 6
        BY <3>1
      <3> HIDE DEF l
      <3>3. l \in Nat /\ 1 <= l /\ l <= 6
        BY <3>2
      <3>4. QED
        BY <3>1, <3>3, Zenon DEF l
    <2>3. x = y
      BY <2>1
    <2> HIDE DEF y
    <2>4. QED
      BY <2>2, <2>3
  <1>6. QED
    BY <1>2a, <1>2b, <1>3, <1>4a, <1>4b, <1>5, Items

\* Different units are different escapes.
LEMMA EscapeUnit ==
  ASSUME NEW u \in Units, NEW units \in SUBSET Units
  PROVE  Escape(u) \in Escapes(units) <=> u \in units
  <1>1. ASSUME NEW w \in units, Escape(u) = Escape(w) PROVE u = w
    <2>1. w \in Units
      OBVIOUS
    <2>2. PICK c1 \in Chars, c2 \in Chars, c3 \in Chars, c4 \in Chars : u = <<c1, c2, c3, c4>>
      BY UnitsAre
    <2>3. PICK d1 \in Chars, d2 \in Chars, d3 \in Chars, d4 \in Chars : w = <<d1, d2, d3, d4>>
      BY <2>1, UnitsAre
    <2>4. <<"bslash", "u", c1, c2, c3, c4>> = <<"bslash", "u", d1, d2, d3, d4>>
      BY <1>1, <2>2, <2>3, EscapeBytes
    <2>5. c1 = d1 /\ c2 = d2 /\ c3 = d3 /\ c4 = d4
      BY <2>4
    <2>6. QED
      BY <2>2, <2>3, <2>5
  <1>2. QED
    BY <1>1, Zenon DEF Escapes

\* The classes of units have nothing in common.
LEMMA UnitsApart ==
  ASSUME NEW u \in Units
  PROVE  /\ u \in HighUnits => u \notin LowUnits /\ u \notin NoUnits
         /\ u \in OtherUnits => u \notin HighUnits /\ u \notin LowUnits /\ u \notin NoUnits
         /\ u \in LowUnits => u \notin HighUnits /\ u \notin NoUnits
         /\ u \in NoUnits => u \notin HighUnits /\ u \notin LowUnits
  <1>1. u \in HighUnits => u[2] \in {"8", "B"} /\ u[3] \in {"0", "F"}
    BY DEF HighUnits
  <1>2. u \in LowUnits => u[2] \in {"C", "F"} /\ u[3] \in {"0", "F"}
    BY DEF LowUnits
  <1>3. u \in OtherUnits => u[2] \in {"7", "0"} /\ u[3] \in {"0", "F"}
    BY DEF OtherUnits
  <1>4. u \in NoUnits => u[3] = "g"
    BY DEF NoUnits
  <1>5. QED
    BY <1>1, <1>2, <1>3, <1>4

\* The other items are not escapes.
LEMMA PlainItems ==
  ASSUME NEW x \in {Quote, <<"a">>, <<"u", "D", "8", "0", "0">>, <<"bslash", "bslash">>, <<"bslash", "quote">>}
  PROVE  x \notin Escapes(Units)
  <1>1. SUFFICES ASSUME NEW u \in Units, x = Escape(u) PROVE FALSE
    BY Zenon DEF Escapes
  <1>2. x[1] = "bslash" /\ x[2] = "u"
    BY <1>1, Escape6
  <1>3. CASE x = Quote
    BY <1>2, <1>3 DEF Quote
  <1>4. CASE x = <<"a">>
    BY <1>2, <1>4
  <1>5. CASE x = <<"u", "D", "8", "0", "0">>
    BY <1>2, <1>5
  <1>6. CASE x = <<"bslash", "bslash">>
    BY <1>2, <1>6
  <1>7. CASE x = <<"bslash", "quote">>
    BY <1>2, <1>7
  <1>8. QED
    BY <1>3, <1>4, <1>5, <1>6, <1>7

\* The escapes of some units are escapes.
LEMMA FewerEscapes ==
  ASSUME NEW units \in SUBSET Units, NEW x, x \in Escapes(units)
  PROVE  x \in Escapes(Units)
  BY Zenon DEF Escapes

\* The four classes of units.
LEMMA UnitSets ==
  /\ HighUnits \subseteq Units /\ LowUnits \subseteq Units
  /\ OtherUnits \subseteq Units /\ NoUnits \subseteq Units
  BY DEF Units

\* Whether the scan gets to the end from a, inside a string and outside.
From(inside, a, I, O) == IF inside THEN a \in I ELSE a \in O

\* How the scan passes an item that is all there.
LEMMA PassItem ==
  ASSUME NEW S, NEW data \in Seq(S), NEW I, NEW O, Accepts(data, I, O, 1),
         NEW a \in 1..Len(data), NEW x \in InsideItems, At(data, a, x),
         NEW inside \in BOOLEAN, inside \/ x \in OutsideItems
  PROVE  /\ x \in Escapes(LowUnits) \cup Escapes(NoUnits) => inside /\ a \notin I
         /\ x \in Escapes(HighUnits) =>
              inside /\ (a \in I <=> LowAt(data, a + 6) /\ a + 12 \in I)
         /\ x \notin Escapes(LowUnits) \cup Escapes(NoUnits) \cup Escapes(HighUnits) =>
              (From(inside, a, I, O) <=> From(inside <=> x # Quote, a + Len(x), I, O))
  <1>0. inside \/ x \in {Quote, <<"a">>}
    BY DEF OutsideItems
  <1>1. CASE x \in {Quote, <<"a">>, <<"u", "D", "8", "0", "0">>, <<"bslash", "bslash">>, <<"bslash", "quote">>}
    <2>1. x \notin Escapes(LowUnits) /\ x \notin Escapes(NoUnits) /\ x \notin Escapes(HighUnits)
      BY <1>1, PlainItems, FewerEscapes, UnitSets
    <2>2. From(inside, a, I, O) <=> From(inside <=> x # Quote, a + Len(x), I, O)
      <3>1. CASE x = Quote
        <4>1. Len(Quote) = 1
          BY DEF Quote
        <4>2. (a \in I <=> a + 1 \in O) /\ (a \in O <=> a + 1 \in I)
          BY <3>1, PassPlain
        <4>3. QED
          BY <3>1, <4>1, <4>2 DEF From
      <3>2. CASE x = <<"a">>
        <4>1. Len(<<"a">>) = 1 /\ <<"a">> # Quote
          BY DEF Quote
        <4>2. (a \in I <=> a + 1 \in I) /\ (a \in O <=> a + 1 \in O)
          BY <3>2, PassPlain
        <4>3. QED
          BY <3>2, <4>1, <4>2 DEF From
      <3>3. CASE x = <<"u", "D", "8", "0", "0">>
        <4>1. Len(<<"u", "D", "8", "0", "0">>) = 5
          OBVIOUS
        <4>2. x # Quote /\ x # <<"a">>
          BY <3>3 DEF Quote
        <4>3. a \in I <=> a + 5 \in I
          BY <3>3, PassPlain
        <4>4. QED
          BY <1>0, <3>3, <4>1, <4>2, <4>3 DEF From
      <3>4. CASE x = <<"bslash", "bslash">> \/ x = <<"bslash", "quote">>
        <4>1. Len(<<"bslash", "bslash">>) = 2 /\ Len(<<"bslash", "quote">>) = 2
          OBVIOUS
        <4>2. x # Quote /\ x # <<"a">>
          BY <3>4 DEF Quote
        <4>3. a \in I <=> a + 2 \in I
          BY <3>4, PassPlain
        <4>4. Len(x) = 2
          BY <3>4, <4>1
        <4>5. QED
          BY <1>0, <4>2, <4>3, <4>4 DEF From
      <3>5. QED
        BY <1>1, <3>1, <3>2, <3>3, <3>4
    <2>3. QED
      BY <2>1, <2>2
  <1>2. ASSUME NEW u \in Units, x = Escape(u)
        PROVE  /\ x \in Escapes(LowUnits) \cup Escapes(NoUnits) => inside /\ a \notin I
               /\ x \in Escapes(HighUnits) =>
                    inside /\ (a \in I <=> LowAt(data, a + 6) /\ a + 12 \in I)
               /\ x \notin Escapes(LowUnits) \cup Escapes(NoUnits) \cup Escapes(HighUnits) =>
                    (From(inside, a, I, O) <=> From(inside <=> x # Quote, a + Len(x), I, O))
    <2>1. /\ x \in Escapes(LowUnits) <=> u \in LowUnits
          /\ x \in Escapes(NoUnits) <=> u \in NoUnits
          /\ x \in Escapes(HighUnits) <=> u \in HighUnits
      BY <1>2, EscapeUnit, UnitSets
    <2>2. x \in Escapes(Units)
      BY <1>2, Zenon DEF Escapes
    <2>3. inside /\ x # Quote
      BY <1>0, <2>2, PlainItems
    <2>4. Len(x) = 6
      BY <1>2, Escape6
    <2>5. /\ u \in OtherUnits => (a \in I <=> a + 6 \in I)
          /\ u \in LowUnits \cup NoUnits => a \notin I
          /\ u \in HighUnits => (a \in I <=> LowAt(data, a + 6) /\ a + 12 \in I)
      BY <1>2, PassEscape
    <2>6. u \in HighUnits \/ u \in LowUnits \/ u \in OtherUnits \/ u \in NoUnits
      BY DEF Units
    <2>7. QED
      BY <2>1, <2>3, <2>4, <2>5, <2>6 DEF From
  <1>3. QED
    BY <1>1, <1>2, Items

\* A second half stands at b exactly when the item there is one.
LEMMA LowItem ==
  ASSUME NEW S, NEW data \in Seq(S), NEW b \in 1..Len(data), NEW x \in InsideItems, At(data, b, x)
  PROVE  LowAt(data, b) <=> x \in Escapes(LowUnits)
  <1>0. /\ b + Len(x) <= Len(data) + 1
        /\ \A j \in 1..Len(x) : data[b + (j - 1)] = x[j]
    BY DEF At
  <1>1. ASSUME NEW u \in Units, x = Escape(u) PROVE LowAt(data, b) <=> x \in Escapes(LowUnits)
    <2>1. x \in Escapes(LowUnits) <=> u \in LowUnits
      BY <1>1, EscapeUnit, UnitSets
    <2>2. Len(x) = 6 /\ x[1] = "bslash" /\ x[2] = "u" /\ \A k \in 0..3 : x[k + 3] = u[k + 1]
      BY <1>1, Escape6
    <2>3. b + 6 <= Len(data) + 1 /\ \A j \in 1..6 : data[b + (j - 1)] = x[j]
      BY <1>0, <2>2
    <2>4. data[b] = "bslash" /\ data[b + 1] = "u" /\ b + 5 <= Len(data)
      <3>1. data[b + (1 - 1)] = "bslash" /\ data[b + (2 - 1)] = "u"
        BY <2>2, <2>3
      <3>2. b + (1 - 1) = b /\ b + (2 - 1) = b + 1
        OBVIOUS
      <3>3. QED
        BY <2>3, <3>1, <3>2
    <2>5. \A k \in 0..3 : data[(b + 2) + k] = u[k + 1]
      <3>1. ASSUME NEW k \in 0..3 PROVE data[(b + 2) + k] = u[k + 1]
        <4>1. k + 3 \in 1..6 /\ b + ((k + 3) - 1) = (b + 2) + k
          OBVIOUS
        <4>2. QED
          BY <2>2, <2>3, <4>1
      <3>2. QED
        BY <3>1
    <2>6. b + 2 \in Nat /\ (b + 2) + 3 <= Len(data)
      BY <2>4
    <2>7. LowSurrogate(parseHex4(data, b + 2)) <=> u \in LowUnits
      <3> DEFINE v == parseHex4(data, b + 2)
      <3>1. /\ u \in HighUnits => HighSurrogate(v) /\ ~LowSurrogate(v) /\ v # -1
            /\ u \in LowUnits => LowSurrogate(v)
            /\ u \in OtherUnits => ~HighSurrogate(v) /\ ~LowSurrogate(v) /\ v # -1
            /\ u \in NoUnits => v = -1
        BY <2>5, <2>6, ParseUnit
      <3> HIDE DEF v
      <3>2. u \in NoUnits => ~LowSurrogate(v)
        BY <3>1 DEF LowSurrogate
      <3>3. u \in HighUnits \/ u \in LowUnits \/ u \in OtherUnits \/ u \in NoUnits
        BY DEF Units
      <3>4. LowSurrogate(v) <=> u \in LowUnits
        BY <3>1, <3>2, <3>3, UnitsApart
      <3>5. QED
        BY <3>4 DEF v
    <2>8. QED
      BY <2>1, <2>4, <2>7 DEF LowAt
  <1>2. CASE x \in {Quote, <<"a">>, <<"u", "D", "8", "0", "0">>, <<"bslash", "bslash">>, <<"bslash", "quote">>}
    <2>1. x \notin Escapes(LowUnits)
      BY <1>2, PlainItems, FewerEscapes, UnitSets
    <2>2. b + (1 - 1) = b /\ b + (2 - 1) = b + 1
      OBVIOUS
    <2>3. 1 \in 1..Len(x) /\ data[b] = x[1]
      <3>1. Len(x) \in Nat /\ 1 <= Len(x)
        BY ItemBytes
      <3>2. 1 \in 1..Len(x)
        BY <3>1
      <3>3. QED
        BY <1>0, <2>2, <3>2
    <2>4. CASE x = <<"bslash", "bslash">> \/ x = <<"bslash", "quote">>
      <3>1. Len(x) = 2 /\ x[2] # "u"
        BY <2>4
      <3>2. data[b + 1] = x[2]
        BY <1>0, <2>2, <3>1
      <3>3. QED
        BY <2>1, <3>1, <3>2 DEF LowAt
    <2>5. CASE x = Quote \/ x = <<"a">> \/ x = <<"u", "D", "8", "0", "0">>
      <3>1. x[1] # "bslash"
        BY <2>5 DEF Quote
      <3>2. QED
        BY <2>1, <2>3, <3>1 DEF LowAt
    <2>6. QED
      BY <1>2, <2>4, <2>5
  <1>3. QED
    BY <1>1, <1>2, Items

\* The data ends within the item x that stands from a on.
CutAt(data, a, x) ==
  /\ Len(data) + 1 < a + Len(x)
  /\ \A j \in 1..Len(x) : a + (j - 1) <= Len(data) => data[a + (j - 1)] = x[j]

\* From such an item the scan accepts nothing.
LEMMA CutItem ==
  ASSUME NEW S, NEW data \in Seq(S), NEW I, NEW O, Accepts(data, I, O, 1),
         NEW a \in 1..Len(data), NEW x \in InsideItems, CutAt(data, a, x)
  PROVE  a \notin I /\ ~LowAt(data, a) /\ x \notin OutsideItems
  <1>0. /\ Len(data) + 1 < a + Len(x)
        /\ \A j \in 1..Len(x) : a + (j - 1) <= Len(data) => data[a + (j - 1)] = x[j]
    BY DEF CutAt
  <1>1. x \in Seq(Chars) /\ Len(x) \in Nat /\ 1 <= Len(x) /\ Len(x) <= 6
    BY ItemBytes
  <1>2. a + 5 > Len(data)
    BY <1>0, <1>1
  <1>3. ~LowAt(data, a)
    BY <1>2 DEF LowAt
  <1>4. \A i \in 1..(Len(data) + 1) : i \in I <=> StepIn(data, I, O, i)
    BY DEF Accepts
  <1>5. Len(data) + 1 \notin I
    <2>1. Len(data) + 1 \in 1..(Len(data) + 1) /\ Len(data) + 1 > Len(data)
      OBVIOUS
    <2>2. QED
      BY <1>4, <2>1 DEF StepIn
  <1>6. data[a] = x[1]
    <2>1. 1 \in 1..Len(x) /\ a + (1 - 1) = a
      BY <1>1
    <2>2. QED
      BY <1>0, <2>1
  <1>7. Len(x) # 1
    <2> DEFINE l == Len(x)
    <2>1. l > 1
      BY <1>0, <1>1
    <2> HIDE DEF l
    <2>2. l # 1
      BY <2>1
    <2>3. QED
      BY <2>2, Zenon DEF l
  <1>8. x \notin OutsideItems
    <2>1. Len(Quote) = 1 /\ Len(<<"a">>) = 1
      BY DEF Quote
    <2>2. QED
      BY <1>7, <2>1 DEF OutsideItems
  <1>9. ASSUME x[1] = "bslash", Len(x) = 2 PROVE a \notin I
    <2>1. a + 1 > Len(data)
      BY <1>0, <1>9
    <2>2. EscapeEnd(data, a) = 0
      BY <2>1 DEF EscapeEnd
    <2>3. QED
      BY <1>4, <1>6, <1>9, <2>2 DEF StepIn
  <1>10. ASSUME NEW u \in Units, x = Escape(u) PROVE a \notin I
    <2>1. x[1] = "bslash" /\ x[2] = "u" /\ Len(x) = 6
      BY <1>10, Escape6
    <2>2. parseHex4(data, a + 2) = -1
      <3>1. (a + 2) + 3 > Len(data)
        BY <1>2
      <3>2. QED
        BY <3>1 DEF parseHex4
    <2>3. a + 1 <= Len(data) => data[a + 1] = "u"
      <3>1. 2 \in 1..Len(x) /\ a + (2 - 1) = a + 1
        BY <2>1
      <3>2. QED
        BY <1>0, <2>1, <3>1
    <2>4. EscapeEnd(data, a) = 0
      BY <2>2, <2>3 DEF EscapeEnd
    <2>5. QED
      BY <1>4, <1>6, <2>1, <2>4 DEF StepIn
  <1>11. ASSUME x = <<"u", "D", "8", "0", "0">> PROVE a \notin I
    <2>1. Len(x) = 5 /\ x[1] = "u" /\ x[2] = "D" /\ x[3] = "8" /\ x[4] = "0" /\ x[5] = "0"
      BY <1>11
    <2>2. \A j \in 1..5 : x[j] # "quote" /\ x[j] # "bslash"
      <3>1. \A j \in 1..5 : j = 1 \/ j = 2 \/ j = 3 \/ j = 4 \/ j = 5
        OBVIOUS
      <3>2. QED
        BY <2>1, <3>1
    <2>3. \A i \in a..Len(data) : data[i] # "quote" /\ data[i] # "bslash"
      <3>1. ASSUME NEW i \in a..Len(data) PROVE data[i] # "quote" /\ data[i] # "bslash"
        <4>1. (i - a) + 1 \in 1..5 /\ a + (((i - a) + 1) - 1) = i /\ i <= Len(data)
          BY <1>0, <2>1
        <4>2. data[i] = x[(i - a) + 1]
          BY <1>0, <2>1, <4>1
        <4>3. QED
          BY <2>2, <4>1, <4>2
      <3>2. QED
        BY <3>1
    <2>4. \A i \in a..Len(data) : i \in I => i + 1 \in I
      BY <1>4, <2>3 DEF StepIn
    <2>5. Len(data) + 1 \in {a + 1, a + 2, a + 3, a + 4}
      BY <1>0, <2>1
    <2>6. CASE Len(data) + 1 = a + 1
      BY <1>5, <2>4, <2>6
    <2>7. CASE Len(data) + 1 = a + 2
      <3>1. (a \in I => a + 1 \in I) /\ (a + 1 \in I => (a + 1) + 1 \in I)
        BY <2>4, <2>7
      <3>2. QED
        BY <1>5, <2>7, <3>1
    <2>8. CASE Len(data) + 1 = a + 3
      <3>1. (a \in I => a + 1 \in I) /\ (a + 1 \in I => (a + 1) + 1 \in I) /\ (a + 2 \in I => (a + 2) + 1 \in I)
        BY <2>4, <2>8
      <3>2. QED
        BY <1>5, <2>8, <3>1
    <2>9. CASE Len(data) + 1 = a + 4
      <3>1. /\ (a \in I => a + 1 \in I) /\ (a + 1 \in I => (a + 1) + 1 \in I)
            /\ (a + 2 \in I => (a + 2) + 1 \in I) /\ (a + 3 \in I => (a + 3) + 1 \in I)
        BY <2>4, <2>9
      <3>2. QED
        BY <1>5, <2>9, <3>1
    <2>10. QED
      BY <2>5, <2>6, <2>7, <2>8, <2>9
  <1>12. x = Quote \/ x = <<"a">> => Len(x) = 1
    BY DEF Quote
  <1>13. (x = <<"bslash", "bslash">> \/ x = <<"bslash", "quote">>) => x[1] = "bslash" /\ Len(x) = 2
    OBVIOUS
  <1>14. a \notin I
    BY <1>7, <1>9, <1>10, <1>11, <1>12, <1>13, Items
  <1>15. QED
    BY <1>3, <1>8, <1>14

\* The quotes among the first i items; whether the item at i is in a string.
QuotesTo(t, i) == Cardinality({j \in 1..i : t[j] = Quote})
In(t, i) == QuotesTo(t, i - 1) % 2 = 1

\* The quotes can be counted.
LEMMA QuotesNat ==
  ASSUME NEW t, NEW i \in Nat
  PROVE  IsFiniteSet({j \in 1..i : t[j] = Quote}) /\ QuotesTo(t, i) \in Nat
  <1>1. IsFiniteSet(1..i)
    BY FS_Interval
  <1>2. IsFiniteSet({j \in 1..i : t[j] = Quote})
    BY <1>1, FS_Subset
  <1>3. QED
    BY <1>2, FS_CardinalityType DEF QuotesTo

\* A quote opens a string or closes it, and nothing else does.
LEMMA InStep ==
  ASSUME NEW t, NEW i \in Nat \ {0}
  PROVE  In(t, i + 1) <=> (In(t, i) <=> t[i] # Quote)
  <1> DEFINE A == {j \in 1..(i - 1) : t[j] = Quote}
             B == {j \in 1..i : t[j] = Quote}
  <1>1. i - 1 \in Nat /\ (i + 1) - 1 = i
    OBVIOUS
  <1>2. IsFiniteSet(A) /\ Cardinality(A) \in Nat
    BY <1>1, QuotesNat DEF QuotesTo
  <1>3. In(t, i) <=> Cardinality(A) % 2 = 1
    BY DEF In, QuotesTo
  <1>4. In(t, i + 1) <=> Cardinality(B) % 2 = 1
    BY <1>1 DEF In, QuotesTo
  <1>5. CASE t[i] = Quote
    <2>1. B = A \cup {i} /\ i \notin A
      BY <1>5
    <2> HIDE DEF A, B
    <2>2. Cardinality(B) = Cardinality(A) + 1
      BY <1>2, <2>1, FS_AddElement
    <2> DEFINE c == Cardinality(A)
    <2>3. c \in Nat
      BY <1>2
    <2> HIDE DEF c
    <2>4. (c + 1) % 2 = 1 <=> ~(c % 2 = 1)
      BY <2>3
    <2>5. QED
      BY <1>3, <1>4, <1>5, <2>2, <2>4 DEF c
  <1>6. CASE t[i] # Quote
    <2>1. B = A
      BY <1>6
    <2> HIDE DEF A, B
    <2>2. QED
      BY <1>3, <1>4, <1>6, <2>1
  <1>7. QED
    BY <1>5, <1>6

\* A text begins outside the strings.
LEMMA InFirst ==
  ASSUME NEW t
  PROVE  ~In(t, 1)
  <1>1. {j \in 1..(1 - 1) : t[j] = Quote} = {}
    OBVIOUS
  <1>2. QuotesTo(t, 1 - 1) = 0
    BY <1>1, FS_EmptySet DEF QuotesTo
  <1>3. 0 % 2 # 1
    OBVIOUS
  <1>4. QED
    BY <1>2, <1>3 DEF In

\* The items stand where GrowText may put them.
WellPlaced(t) ==
  /\ t \in Seq(InsideItems)
  /\ \A i \in 1..Len(t) : In(t, i) \/ t[i] \in OutsideItems

\* GrowText counts the quotes of the whole text.
LEMMA InEnd ==
  ASSUME NEW S, NEW t \in Seq(S)
  PROVE  In(t, Len(t) + 1) <=> Quotes(t) % 2 = 1
  <1>1. DOMAIN t = 1..Len(t) /\ (Len(t) + 1) - 1 = Len(t)
    OBVIOUS
  <1>2. QED
    BY <1>1 DEF In, QuotesTo, Quotes

\* The item that GrowText appends is well placed, and so are the ones before.
LEMMA PlaceMore ==
  ASSUME NEW t, WellPlaced(t), NEW x \in IF Quotes(t) % 2 = 1 THEN InsideItems ELSE OutsideItems
  PROVE  WellPlaced(Append(t, x))
  <1>1. OutsideItems \subseteq InsideItems
    BY DEF OutsideItems, InsideItems
  <1>2. t \in Seq(InsideItems) /\ x \in InsideItems
    BY <1>1 DEF WellPlaced
  <1> DEFINE w == Append(t, x)
             n == Len(t)
  <1>3. /\ w \in Seq(InsideItems) /\ Len(w) = n + 1 /\ n \in Nat
        /\ \A j \in 1..n : w[j] = t[j]
        /\ w[n + 1] = x
    BY <1>2, AppendProperties
  <1>4. \A i \in 1..(n + 1) : In(w, i) <=> In(t, i)
    <2>1. ASSUME NEW i \in 1..(n + 1) PROVE In(w, i) <=> In(t, i)
      <3>1. \A j \in 1..(i - 1) : w[j] = t[j]
        BY <1>3
      <3> HIDE DEF w, n
      <3>2. {j \in 1..(i - 1) : w[j] = Quote} = {j \in 1..(i - 1) : t[j] = Quote}
        BY <3>1
      <3>3. QED
        BY <3>2 DEF In, QuotesTo
    <2>2. QED
      BY <2>1
  <1>5. In(t, n + 1) \/ x \in OutsideItems
    BY <1>2, InEnd
  <1> HIDE DEF w, n
  <1>6. ASSUME NEW i \in 1..(n + 1) PROVE In(w, i) \/ w[i] \in OutsideItems
    <2>1. CASE i = n + 1
      BY <1>3, <1>4, <1>5, <2>1
    <2>2. CASE i # n + 1
      <3>1. i \in 1..n
        BY <1>3, <2>2
      <3>2. QED
        BY <1>3, <1>4, <3>1 DEF WellPlaced, n
    <2>3. QED
      BY <2>1, <2>2
  <1>7. QED
    BY <1>3, <1>6 DEF WellPlaced, w

-----------------------------------------------------------------------------
\* The item at i is an escape of one of these units.
Has(t, i, units) == i \in 1..Len(t) /\ t[i] \in Escapes(units)

\* From i on the text is as it should be, but for a second half at i.
Rest(t, i) ==
  /\ ~In(t, Len(t) + 1)
  /\ \A j \in i..Len(t) : ~Has(t, j, NoUnits) /\ (Has(t, j, HighUnits) <=> Has(t, j + 1, LowUnits))

Fine(t, i) == ~Has(t, i, LowUnits) /\ Rest(t, i)

\* An escape is of one class.
LEMMA HasOne ==
  ASSUME NEW t, NEW i
  PROVE  /\ Has(t, i, LowUnits) => ~Has(t, i, HighUnits) /\ ~Has(t, i, NoUnits)
         /\ Has(t, i, HighUnits) => ~Has(t, i, NoUnits)
  <1>1. ASSUME t[i] \in Escapes(LowUnits) PROVE t[i] \notin Escapes(HighUnits) /\ t[i] \notin Escapes(NoUnits)
    <2>1. PICK u \in LowUnits : t[i] = Escape(u)
      BY <1>1 DEF Escapes
    <2>2. u \in Units /\ u \notin HighUnits /\ u \notin NoUnits
      BY UnitSets, UnitsApart
    <2>3. QED
      BY <2>1, <2>2, EscapeUnit, UnitSets
  <1>2. ASSUME t[i] \in Escapes(HighUnits) PROVE t[i] \notin Escapes(NoUnits)
    <2>1. PICK u \in HighUnits : t[i] = Escape(u)
      BY <1>2 DEF Escapes
    <2>2. u \in Units /\ u \notin NoUnits
      BY UnitSets, UnitsApart
    <2>3. QED
      BY <2>1, <2>2, EscapeUnit, UnitSets
  <1>3. QED
    BY <1>1, <1>2 DEF Has

\* Rest, one item at a time.
LEMMA RestStep ==
  ASSUME NEW t, Len(t) \in Nat, NEW i \in 1..Len(t)
  PROVE  Rest(t, i) <=> /\ ~Has(t, i, NoUnits) /\ (Has(t, i, HighUnits) <=> Has(t, i + 1, LowUnits))
                        /\ Rest(t, i + 1)
  <1>1. \A j \in i..Len(t) : j = i \/ j \in (i + 1)..Len(t)
    OBVIOUS
  <1>2. i \in i..Len(t) /\ \A j \in (i + 1)..Len(t) : j \in i..Len(t)
    OBVIOUS
  <1>3. QED
    BY <1>1, <1>2 DEF Rest

\* Fine, one item at a time, or two for a surrogate pair.
LEMMA FineStep ==
  ASSUME NEW t, Len(t) \in Nat, NEW i \in 1..Len(t)
  PROVE  /\ Has(t, i, LowUnits) \/ Has(t, i, NoUnits) => ~Fine(t, i)
         /\ Has(t, i, HighUnits) => (Fine(t, i) <=> Has(t, i + 1, LowUnits) /\ Fine(t, i + 2))
         /\ ~Has(t, i, LowUnits) /\ ~Has(t, i, NoUnits) /\ ~Has(t, i, HighUnits) =>
              (Fine(t, i) <=> Fine(t, i + 1))
  <1>1. Rest(t, i) <=> /\ ~Has(t, i, NoUnits) /\ (Has(t, i, HighUnits) <=> Has(t, i + 1, LowUnits))
                       /\ Rest(t, i + 1)
    BY RestStep
  <1>2. ASSUME Has(t, i + 1, LowUnits)
        PROVE  Rest(t, i + 1) <=> Fine(t, i + 2)
    <2>1. i + 1 \in 1..Len(t) /\ (i + 1) + 1 = i + 2
      BY <1>2 DEF Has
    <2>2. ~Has(t, i + 1, HighUnits) /\ ~Has(t, i + 1, NoUnits)
      BY <1>2, HasOne
    <2>3. Rest(t, i + 1) <=> /\ ~Has(t, i + 1, NoUnits)
                             /\ (Has(t, i + 1, HighUnits) <=> Has(t, (i + 1) + 1, LowUnits))
                             /\ Rest(t, (i + 1) + 1)
      BY <2>1, RestStep
    <2>4. QED
      BY <2>1, <2>2, <2>3 DEF Fine
  <1>3. Has(t, i, HighUnits) => ~Has(t, i, NoUnits) /\ ~Has(t, i, LowUnits)
    BY HasOne
  <1>4. QED
    BY <1>1, <1>2, <1>3 DEF Fine

-----------------------------------------------------------------------------
\* The first m items are all there in the data, the i-th from p[i] on.
Whole(t, data, p, m) ==
  \A i \in 1..m : /\ At(data, p[i], t[i]) /\ p[i] \in 1..Len(data)
                  /\ p[i + 1] = p[i] + Len(t[i])

\* Whether the scan gets to the end from the i-th item.
Ends(t, p, I, O, i) == From(In(t, i), p[i], I, O)

\* The scan, one item at a time, or two for a surrogate pair.  It is the same
\* recursion as that of Fine as long as the items are all there.
LEMMA EndsStep ==
  ASSUME NEW S, NEW data \in Seq(S), NEW I, NEW O, Accepts(data, I, O, 1),
         NEW t, WellPlaced(t), NEW p, NEW m \in 0..Len(t), Whole(t, data, p, m), NEW i \in 1..m
  PROVE  /\ Has(t, i, LowUnits) \/ Has(t, i, NoUnits) => ~Ends(t, p, I, O, i)
         /\ Has(t, i, HighUnits) /\ i < m =>
              (Ends(t, p, I, O, i) <=> Has(t, i + 1, LowUnits) /\ Ends(t, p, I, O, i + 2))
         /\ Has(t, i, HighUnits) /\ ~LowAt(data, p[i + 1]) => ~Ends(t, p, I, O, i)
         /\ ~Has(t, i, LowUnits) /\ ~Has(t, i, NoUnits) /\ ~Has(t, i, HighUnits) =>
              (Ends(t, p, I, O, i) <=> Ends(t, p, I, O, i + 1))
  <1> DEFINE x == t[i]
             a == p[i]
             inside == In(t, i)
  <1>0. t \in Seq(InsideItems) /\ Len(t) \in Nat /\ i \in 1..Len(t) /\ i \in Nat \ {0}
    BY DEF WellPlaced
  <1>1. x \in InsideItems /\ (inside \/ x \in OutsideItems)
    BY <1>0 DEF WellPlaced
  <1>2. At(data, a, x) /\ a \in 1..Len(data) /\ p[i + 1] = a + Len(x)
    BY DEF Whole
  <1>3. inside \in BOOLEAN
    BY DEF In
  <1>4. In(t, i + 1) <=> (inside <=> x # Quote)
    BY <1>0, InStep
  <1> HIDE DEF x, a, inside
  <1>5. /\ x \in Escapes(LowUnits) \cup Escapes(NoUnits) => inside /\ a \notin I
        /\ x \in Escapes(HighUnits) =>
             inside /\ (a \in I <=> LowAt(data, a + 6) /\ a + 12 \in I)
        /\ x \notin Escapes(LowUnits) \cup Escapes(NoUnits) \cup Escapes(HighUnits) =>
             (From(inside, a, I, O) <=> From(inside <=> x # Quote, a + Len(x), I, O))
    BY <1>1, <1>2, <1>3, PassItem
  <1>6. \A units : Has(t, i, units) <=> x \in Escapes(units)
    BY <1>0 DEF Has, x
  <1>7. Ends(t, p, I, O, i) <=> From(inside, a, I, O)
    BY DEF Ends, inside, a
  <1>8. ASSUME x \in Escapes(HighUnits)
        PROVE  Len(x) = 6 /\ x # Quote /\ inside /\ In(t, i + 1)
    <2>1. PICK u \in HighUnits : x = Escape(u)
      BY <1>8 DEF Escapes
    <2>2. Len(x) = 6
      BY <2>1, UnitSets, Escape6
    <2>3. x \in Escapes(Units)
      BY <1>8, FewerEscapes, UnitSets
    <2>4. x # Quote
      BY <2>3, PlainItems
    <2>5. QED
      BY <1>4, <1>5, <1>8, <2>2, <2>4
  <1>9. ASSUME x \in Escapes(HighUnits)
        PROVE  p[i + 1] = a + 6 /\ (Ends(t, p, I, O, i) <=> LowAt(data, p[i + 1]) /\ a + 12 \in I)
    <2>1. p[i + 1] = a + 6
      BY <1>2, <1>8, <1>9
    <2>2. From(inside, a, I, O) <=> LowAt(data, a + 6) /\ a + 12 \in I
      BY <1>5, <1>8, <1>9 DEF From
    <2>3. QED
      BY <1>7, <2>1, <2>2
  <1>10. ASSUME x \in Escapes(HighUnits), i < m
         PROVE  Ends(t, p, I, O, i) <=> Has(t, i + 1, LowUnits) /\ Ends(t, p, I, O, i + 2)
    <2>1. i + 1 \in 1..m /\ i + 1 \in 1..Len(t) /\ (i + 1) + 1 = i + 2 /\ i + 1 \in Nat \ {0}
      BY <1>0, <1>10
    <2> DEFINE y == t[i + 1]
    <2>2. /\ At(data, p[i + 1], y) /\ p[i + 1] \in 1..Len(data)
          /\ p[i + 2] = p[i + 1] + Len(y) /\ y \in InsideItems
      BY <1>0, <2>1 DEF Whole
    <2>3. In(t, i + 2) <=> (In(t, i + 1) <=> y # Quote)
      BY <2>1, InStep
    <2> HIDE DEF y
    <2>4. LowAt(data, p[i + 1]) <=> y \in Escapes(LowUnits)
      BY <2>2, LowItem
    <2>5. Has(t, i + 1, LowUnits) <=> y \in Escapes(LowUnits)
      BY <2>1 DEF Has, y
    <2>6. ASSUME y \in Escapes(LowUnits)
          PROVE  Ends(t, p, I, O, i + 2) <=> a + 12 \in I
      <3>1. PICK u \in LowUnits : y = Escape(u)
        BY <2>6 DEF Escapes
      <3>2. Len(y) = 6
        BY <3>1, UnitSets, Escape6
      <3>3. y \in Escapes(Units)
        BY <2>6, FewerEscapes, UnitSets
      <3>4. y # Quote
        BY <3>3, PlainItems
      <3>5. In(t, i + 2)
        BY <1>8, <1>10, <2>3, <3>4
      <3>6. p[i + 2] = a + 12
        <4>1. p[i + 2] = (a + 6) + 6
          BY <1>9, <1>10, <2>2, <3>2
        <4>2. a \in Nat
          BY <1>2
        <4>3. QED
          BY <4>1, <4>2
      <3>7. QED
        BY <3>5, <3>6 DEF Ends, From
    <2>7. QED
      BY <1>9, <1>10, <2>4, <2>5, <2>6
  <1>11. ASSUME x \notin Escapes(LowUnits), x \notin Escapes(NoUnits), x \notin Escapes(HighUnits)
         PROVE  Ends(t, p, I, O, i) <=> Ends(t, p, I, O, i + 1)
    <2>1. Ends(t, p, I, O, i) <=> From(inside <=> x # Quote, a + Len(x), I, O)
      BY <1>5, <1>7, <1>11
    <2>2. Ends(t, p, I, O, i + 1) <=> From(In(t, i + 1), a + Len(x), I, O)
      BY <1>2 DEF Ends
    <2>3. QED
      BY <1>4, <2>1, <2>2 DEF From
  <1>12. x \in Escapes(LowUnits) \/ x \in Escapes(NoUnits) => ~Ends(t, p, I, O, i)
    BY <1>5, <1>7 DEF From
  <1>13. QED
    BY <1>6, <1>9, <1>10, <1>11, <1>12

\* The scan of a whole text.
LEMMA ScanExact ==
  ASSUME NEW S, NEW data \in Seq(S), NEW I, NEW O, Accepts(data, I, O, 1),
         NEW t, WellPlaced(t), NEW p, Whole(t, data, p, Len(t)), p[Len(t) + 1] = Len(data) + 1
  PROVE  \A i \in 1..(Len(t) + 1) : Ends(t, p, I, O, i) <=> Fine(t, i)
  <1> DEFINE m == Len(t)
             E(i) == Ends(t, p, I, O, i)
             T == {k \in 0..m : ~(E((m + 1) - k) <=> Fine(t, (m + 1) - k))}
  <1>0. m \in Nat /\ m \in 0..Len(t) /\ t \in Seq(InsideItems)
    BY DEF WellPlaced
  <1>1. E(m + 1) <=> Fine(t, m + 1)
    <2>1. Len(data) + 1 \in 1..(Len(data) + 1) /\ Len(data) + 1 > Len(data)
      OBVIOUS
    <2>2. Len(data) + 1 \notin I /\ Len(data) + 1 \in O
      BY <2>1 DEF Accepts, StepIn, StepOut
    <2>3. E(m + 1) <=> ~In(t, m + 1)
      BY <2>2 DEF Ends, From
    <2>4. ~Has(t, m + 1, LowUnits) /\ (m + 1)..m = {}
      BY <1>0 DEF Has
    <2>5. QED
      BY <2>3, <2>4 DEF Fine, Rest
  <1>2. ~LowAt(data, p[m + 1])
    <2>1. (Len(data) + 1) + 5 > Len(data)
      OBVIOUS
    <2>2. QED
      BY <2>1 DEF LowAt
  <1>3. ASSUME NEW i \in 1..m,
               E(i + 1) <=> Fine(t, i + 1),
               i < m => (E(i + 2) <=> Fine(t, i + 2))
        PROVE  E(i) <=> Fine(t, i)
    <2>1. /\ Has(t, i, LowUnits) \/ Has(t, i, NoUnits) => ~E(i)
          /\ Has(t, i, HighUnits) /\ i < m => (E(i) <=> Has(t, i + 1, LowUnits) /\ E(i + 2))
          /\ Has(t, i, HighUnits) /\ ~LowAt(data, p[i + 1]) => ~E(i)
          /\ ~Has(t, i, LowUnits) /\ ~Has(t, i, NoUnits) /\ ~Has(t, i, HighUnits) =>
               (E(i) <=> E(i + 1))
      BY <1>0, EndsStep
    <2>2. /\ Has(t, i, LowUnits) \/ Has(t, i, NoUnits) => ~Fine(t, i)
          /\ Has(t, i, HighUnits) => (Fine(t, i) <=> Has(t, i + 1, LowUnits) /\ Fine(t, i + 2))
          /\ ~Has(t, i, LowUnits) /\ ~Has(t, i, NoUnits) /\ ~Has(t, i, HighUnits) =>
               (Fine(t, i) <=> Fine(t, i + 1))
      BY <1>0, FineStep
    <2>3. ~(i < m) => i = m /\ ~Has(t, i + 1, LowUnits)
      BY <1>0 DEF Has
    <2> HIDE DEF E
    <2>4. QED
      BY <1>2, <1>3, <2>1, <2>2, <2>3
  <1> HIDE DEF E, m
  <1>4. T = {}
    <2>1. SUFFICES ASSUME T # {} PROVE FALSE
      OBVIOUS
    <2>2. T \subseteq Nat
      BY <1>0
    <2> HIDE DEF T
    <2>3. PICK k \in T : \A y \in T : k <= y
      BY <2>1, <2>2, Least
    <2>4. k \in 0..m /\ ~(E((m + 1) - k) <=> Fine(t, (m + 1) - k))
      BY DEF T
    <2>5. \A j \in 0..m : ~(k <= j) => (E((m + 1) - j) <=> Fine(t, (m + 1) - j))
      BY <2>3 DEF T
    <2> DEFINE i == (m + 1) - k
    <2>6. k # 0
      <3>1. k = 0 => (m + 1) - k = m + 1
        BY <1>0
      <3>2. QED
        BY <1>1, <2>4, <3>1
    <2>7. i \in 1..m /\ k - 1 \in 0..m /\ ~(k <= k - 1) /\ (m + 1) - (k - 1) = i + 1
      BY <1>0, <2>4, <2>6
    <2>8. E(i + 1) <=> Fine(t, i + 1)
      BY <2>5, <2>7
    <2>9. i < m => (E(i + 2) <=> Fine(t, i + 2))
      <3>1. i < m => k - 2 \in 0..m /\ ~(k <= k - 2) /\ (m + 1) - (k - 2) = i + 2
        BY <1>0, <2>4, <2>7
      <3>2. QED
        BY <2>5, <3>1
    <2>10. E(i) <=> Fine(t, i)
      <3> HIDE DEF i
      <3>1. QED
        BY <1>3, <2>7, <2>8, <2>9
    <2>11. QED
      BY <2>4, <2>10
  <1>5. ASSUME NEW i \in 1..(m + 1) PROVE E(i) <=> Fine(t, i)
    <2>1. (m + 1) - i \in 0..m /\ (m + 1) - ((m + 1) - i) = i
      BY <1>0
    <2>2. QED
      BY <1>4, <2>1
  <1>6. QED
    BY <1>5 DEF E, m

\* The scan of a text that breaks off in its last item.
LEMMA ScanCut ==
  ASSUME NEW S, NEW data \in Seq(S), NEW I, NEW O, Accepts(data, I, O, 1),
         NEW t, WellPlaced(t), NEW p, NEW m \in 0..(Len(t) - 1), Whole(t, data, p, m),
         ~LowAt(data, p[m + 1]), ~Ends(t, p, I, O, m + 1)
  PROVE  ~Ends(t, p, I, O, 1)
  <1> DEFINE E(i) == Ends(t, p, I, O, i)
             T == {k \in 0..m : E((m + 1) - k)}
  <1>0. m \in Nat /\ m \in 0..Len(t) /\ t \in Seq(InsideItems) /\ Len(t) \in Nat
    BY DEF WellPlaced
  <1>3. ASSUME NEW i \in 1..m, ~E(i + 1), i < m => ~E(i + 2)
        PROVE  ~E(i)
    <2>1. /\ Has(t, i, LowUnits) \/ Has(t, i, NoUnits) => ~E(i)
          /\ Has(t, i, HighUnits) /\ i < m => (E(i) <=> Has(t, i + 1, LowUnits) /\ E(i + 2))
          /\ Has(t, i, HighUnits) /\ ~LowAt(data, p[i + 1]) => ~E(i)
          /\ ~Has(t, i, LowUnits) /\ ~Has(t, i, NoUnits) /\ ~Has(t, i, HighUnits) =>
               (E(i) <=> E(i + 1))
      BY <1>0, EndsStep
    <2>2. ~(i < m) => i = m
      BY <1>0
    <2> HIDE DEF E
    <2>3. QED
      BY <1>3, <2>1, <2>2
  <1>4. ~E(m + 1)
    OBVIOUS
  <1> HIDE DEF E
  <1>5. T = {}
    <2>1. SUFFICES ASSUME T # {} PROVE FALSE
      OBVIOUS
    <2>2. T \subseteq Nat
      BY <1>0
    <2> HIDE DEF T
    <2>3. PICK k \in T : \A y \in T : k <= y
      BY <2>1, <2>2, Least
    <2>4. k \in 0..m /\ E((m + 1) - k)
      BY DEF T
    <2>5. \A j \in 0..m : ~(k <= j) => ~E((m + 1) - j)
      BY <2>3 DEF T
    <2> DEFINE i == (m + 1) - k
    <2>6. k # 0
      <3>1. k = 0 => (m + 1) - k = m + 1
        BY <1>0
      <3>2. QED
        BY <1>4, <2>4, <3>1
    <2>7. i \in 1..m /\ k - 1 \in 0..m /\ ~(k <= k - 1) /\ (m + 1) - (k - 1) = i + 1
      BY <1>0, <2>4, <2>6
    <2>8. ~E(i + 1)
      BY <2>5, <2>7
    <2>9. i < m => ~E(i + 2)
      <3>1. i < m => k - 2 \in 0..m /\ ~(k <= k - 2) /\ (m + 1) - (k - 2) = i + 2
        BY <1>0, <2>4, <2>7
      <3>2. QED
        BY <2>5, <3>1
    <2>10. ~E(i)
      <3> HIDE DEF i
      <3>1. QED
        BY <1>3, <2>7, <2>8, <2>9
    <2>11. QED
      BY <2>4, <2>10
  <1>6. m \in 0..m /\ (m + 1) - m = 1
    BY <1>0
  <1>7. ~E(1)
    BY <1>5, <1>6
  <1>8. QED
    BY <1>7 DEF E

\* The bytes of a text that is there up to its first m items.
LEMMA WholeItems ==
  ASSUME NEW t \in Seq(InsideItems), NEW b \in Seq(Chars), NEW p, Laid(t, Len(t), b, p),
         NEW data \in Seq(Chars), Len(data) <= Len(b),
         \A j \in 1..Len(data) : data[j] = b[j],
         NEW m \in 0..Len(t), p[m + 1] <= Len(data) + 1
  PROVE  Whole(t, data, p, m)
  <1> DEFINE n == Len(t)
  <1>0. n \in Nat /\ Len(b) \in Nat /\ Len(data) \in Nat
    OBVIOUS
  <1>1. ASSUME NEW i \in 1..m
        PROVE  /\ At(data, p[i], t[i]) /\ p[i] \in 1..Len(data)
               /\ p[i + 1] = p[i] + Len(t[i])
    <2>1. i \in 1..n /\ i \in 1..(n + 1) /\ i + 1 \in 1..(n + 1) /\ m + 1 \in (i + 1)..(n + 1) /\ m + 1 \in 1..(n + 1)
      BY <1>0
    <2> DEFINE x == t[i]
               a == p[i]
    <2>2. /\ a \in Nat \ {0} /\ p[m + 1] \in Nat /\ p[i + 1] = a + Len(x) /\ p[i + 1] <= p[m + 1]
          /\ \A j \in 1..Len(x) : a + (j - 1) \in 1..Len(b) /\ b[a + (j - 1)] = x[j]
      BY <2>1 DEF Laid
    <2>3. x \in InsideItems
      BY <2>1
    <2> HIDE DEF x, a
    <2>4. Len(x) \in Nat /\ 1 <= Len(x)
      BY <2>3, ItemBytes
    <2>5. a + Len(x) <= Len(data) + 1
      BY <1>0, <2>2, <2>4
    <2>6. ASSUME NEW j \in 1..Len(x) PROVE data[a + (j - 1)] = x[j]
      <3>1. a + (j - 1) \in 1..Len(data)
        BY <1>0, <2>2, <2>4, <2>5
      <3>2. QED
        BY <2>2, <3>1
    <2>7. At(data, a, x)
      BY <2>5, <2>6 DEF At
    <2>8. a \in 1..Len(data)
      BY <1>0, <2>2, <2>4, <2>5
    <2>9. QED
      BY <2>2, <2>7, <2>8 DEF x, a
  <1>2. QED
    BY <1>1 DEF Whole

\* The items are sequences of bytes.
LEMMA TextBytes ==
  ASSUME NEW t \in Seq(InsideItems)
  PROVE  t \in Seq(Seq(Chars))
  <1>1. InsideItems \subseteq Seq(Chars)
    BY ItemBytes
  <1>2. QED
    BY <1>1

\* A text is accepted exactly when it is fine from its first item on.
LEMMA TextExact ==
  ASSUME NEW t, WellPlaced(t)
  PROVE  validJSONUnicode(FlattenSeq(t)) <=> Fine(t, 1)
  <1>1. t \in Seq(InsideItems) /\ t \in Seq(Seq(Chars)) /\ Len(t) \in Nat
    BY TextBytes DEF WellPlaced
  <1> DEFINE b == FlattenSeq(t)
  <1>2. b \in Seq(Chars) /\ \E p : Laid(t, Len(t), b, p)
    BY <1>1, FlattenLaid
  <1> HIDE DEF b
  <1>3. PICK p : Laid(t, Len(t), b, p)
    BY <1>2
  <1>4. p[1] = 1 /\ p[Len(t) + 1] = Len(b) + 1 /\ Len(b) \in Nat
    BY <1>2, <1>3 DEF Laid
  <1>5. Whole(t, b, p, Len(t))
    <2>1. Len(t) \in 0..Len(t) /\ p[Len(t) + 1] <= Len(b) + 1 /\ Len(b) <= Len(b)
      BY <1>1, <1>4
    <2>2. QED
      BY <1>1, <1>2, <1>3, <2>1, WholeItems
  <1>6. PICK I, O : Accepts(b, I, O, 1) /\ (validJSONUnicode(b) <=> 1 \in O)
    BY <1>2, ScanAccepts
  <1>7. Ends(t, p, I, O, 1) <=> Fine(t, 1)
    <2>1. 1 \in 1..(Len(t) + 1)
      BY <1>1
    <2>2. \A i \in 1..(Len(t) + 1) : Ends(t, p, I, O, i) <=> Fine(t, i)
      BY <1>2, <1>4, <1>5, <1>6, ScanExact
    <2>3. QED
      BY <2>1, <2>2
  <1>8. Ends(t, p, I, O, 1) <=> 1 \in O
    BY <1>4, InFirst DEF Ends, From
  <1>9. QED
    BY <1>6, <1>7, <1>8 DEF b

\* A text that ends within its last item is refused.
LEMMA TextCut ==
  ASSUME NEW t, WellPlaced(t), t # <<>>, NEW k \in 1..(Len(t[Len(t)]) - 1)
  PROVE  ~validJSONUnicode(SubSeq(FlattenSeq(t), 1, Len(FlattenSeq(t)) - k))
  <1>1. t \in Seq(InsideItems) /\ t \in Seq(Seq(Chars)) /\ Len(t) \in Nat /\ Len(t) # 0
    BY TextBytes DEF WellPlaced
  <1> DEFINE b == FlattenSeq(t)
             n == Len(t)
             x == t[n]
             m == n - 1
  <1>2. b \in Seq(Chars) /\ \E p : Laid(t, n, b, p)
    BY <1>1, FlattenLaid
  <1>3. x \in InsideItems /\ n \in 1..n /\ n \in Nat /\ m \in 0..n /\ m \in 0..(n - 1) /\ m + 1 = n
    BY <1>1
  <1>4. In(t, n) \/ x \in OutsideItems
    BY <1>3 DEF WellPlaced
  <1> HIDE DEF b, x
  <1>5. PICK p : Laid(t, n, b, p)
    BY <1>2
  <1>6. /\ p[1] = 1 /\ p[n + 1] = Len(b) + 1 /\ Len(b) \in Nat /\ p[n] \in Nat \ {0}
        /\ p[n + 1] = p[n] + Len(x)
        /\ \A j \in 1..Len(x) : p[n] + (j - 1) \in 1..Len(b) /\ b[p[n] + (j - 1)] = x[j]
    <2>1. /\ p \in [1..(n + 1) -> Nat \ {0}] /\ p[1] = 1 /\ p[n + 1] = Len(b) + 1
          /\ p[n + 1] = p[n] + Len(t[n])
          /\ \A j \in 1..Len(t[n]) : p[n] + (j - 1) \in 1..Len(b) /\ b[p[n] + (j - 1)] = t[n][j]
      <3>1. \A i \in 1..n : p[i + 1] = p[i] + Len(t[i])
        BY <1>5 DEF Laid
      <3>2. \A i \in 1..n : \A j \in 1..Len(t[i]) :
              p[i] + (j - 1) \in 1..Len(b) /\ b[p[i] + (j - 1)] = t[i][j]
        BY <1>5 DEF Laid
      <3>3. p \in [1..(n + 1) -> Nat \ {0}] /\ p[1] = 1 /\ p[n + 1] = Len(b) + 1
        BY <1>5 DEF Laid
      <3> HIDE DEF n
      <3>4. QED
        BY <1>3, <3>1, <3>2, <3>3
    <2>2. p[n] \in Nat \ {0}
      <3> HIDE DEF n
      <3>1. n \in 1..(n + 1)
        BY <1>3
      <3>2. QED
        BY <2>1, <3>1
    <2>3. Len(b) \in Nat
      BY <1>2
    <2>4. QED
      BY <2>1, <2>2, <2>3 DEF x
  <1>7. Len(x) \in Nat /\ 1 <= Len(x) /\ k \in 1..(Len(x) - 1)
    <2>1. k \in 1..(Len(x) - 1)
      BY DEF x
    <2>2. QED
      BY <1>3, <2>1, ItemBytes
  <1> DEFINE l == Len(b) - k
             data == SubSeq(b, 1, l)
             a == p[n]
  <1>8. l \in Nat /\ l <= Len(b) /\ a <= l /\ l + 1 < a + Len(x) /\ a \in 1..l
    BY <1>6, <1>7, SMTT(60)
  <1>9. data \in Seq(Chars) /\ Len(data) = l /\ \A j \in 1..l : data[j] = b[j]
    <2> HIDE DEF l
    <2>1. 1 \in 1..(Len(b) + 1) /\ l \in (1 - 1)..Len(b)
      BY <1>6, <1>8
    <2>2. QED
      BY <1>2, <1>6, <1>8, <2>1, SubSeqProperties, SMTT(60)
  <1> HIDE DEF l, data, a
  <1>10. Whole(t, data, p, m)
    <2>1. p[m + 1] <= Len(data) + 1 /\ Len(data) <= Len(b)
      BY <1>3, <1>6, <1>8, <1>9 DEF a
    <2>2. \A j \in 1..Len(data) : data[j] = b[j]
      BY <1>9
    <2>3. QED
      BY <1>1, <1>2, <1>3, <1>5, <1>9, <2>1, <2>2, WholeItems
  <1>11. PICK I, O : Accepts(data, I, O, 1) /\ (validJSONUnicode(data) <=> 1 \in O)
    BY <1>9, ScanAccepts
  <1>12. a \notin I /\ ~LowAt(data, a) /\ x \notin OutsideItems
    <2>1. \A j \in 1..Len(x) : a + (j - 1) <= Len(data) => data[a + (j - 1)] = x[j]
      <3>1. ASSUME NEW j \in 1..Len(x), a + (j - 1) <= Len(data) PROVE data[a + (j - 1)] = x[j]
        <4>1. a + (j - 1) \in 1..l
          BY <1>7, <1>8, <1>9, <3>1
        <4>2. QED
          BY <1>6, <1>9, <4>1 DEF a
      <3>2. QED
        BY <3>1
    <2>2. a \in 1..Len(data) /\ Len(data) + 1 < a + Len(x)
      BY <1>8, <1>9
    <2>3. Accepts(data, I, O, 1) /\ data \in Seq(Chars) /\ x \in InsideItems
      BY <1>3, <1>9, <1>11
    <2>5. CutAt(data, a, x)
      BY <2>1, <2>2 DEF CutAt
    <2>6. QED
      BY <2>2, <2>3, <2>5, CutItem
  <1>13. ~LowAt(data, p[m + 1]) /\ ~Ends(t, p, I, O, m + 1)
    BY <1>3, <1>4, <1>12 DEF a, Ends, From
  <1>14. ~Ends(t, p, I, O, 1)
    BY <1>3, <1>9, <1>10, <1>11, <1>13, ScanCut
  <1>15. 1 \notin O
    BY <1>6, <1>14, InFirst DEF Ends, From
  <1>16. QED
    BY <1>11, <1>15 DEF data, l, b

\* What the property says, in these terms.
LEMMA UnicodeOfPlaced == WellPlaced(text) => UnicodeExact
  <1> SUFFICES ASSUME WellPlaced(text) PROVE UnicodeExact
    OBVIOUS
  <1> DEFINE unit(i, units) == i \in DOMAIN text /\ text[i] \in {Escape(u) : u \in units}
             bytes == FlattenSeq(text)
             cut == IF text = <<>> THEN 0 ELSE Len(Last(text)) - 1
  <1>1. text \in Seq(InsideItems) /\ Len(text) \in Nat /\ DOMAIN text = 1..Len(text)
    BY DEF WellPlaced
  <1>2. \A i, units : unit(i, units) <=> Has(text, i, units)
    BY <1>1 DEF Has, Escapes
  <1>3. Quotes(text) % 2 = 0 <=> ~In(text, Len(text) + 1)
    <2>1. Quotes(text) \in Nat
      BY <1>1, QuotesNat DEF Quotes, QuotesTo
    <2> DEFINE q == Quotes(text)
    <2>2. In(text, Len(text) + 1) <=> q % 2 = 1
      BY <1>1, InEnd
    <2>3. q \in Nat
      BY <2>1
    <2> HIDE DEF q
    <2>4. q % 2 = 0 <=> ~(q % 2 = 1)
      BY <2>3
    <2>5. QED
      BY <2>2, <2>4 DEF q
  <1> HIDE DEF unit
  <1>4. Fine(text, 1) <=> /\ Quotes(text) % 2 = 0
                          /\ \A i \in 0..Len(text) : /\ ~unit(i, NoUnits)
                                                     /\ unit(i, HighUnits) <=> unit(i + 1, LowUnits)
    <2>1. ~Has(text, 0, NoUnits) /\ ~Has(text, 0, HighUnits) /\ 0 + 1 = 1 /\ 0 \in 0..Len(text)
      BY <1>1 DEF Has
    <2>2. \A i \in 0..Len(text) : i = 0 \/ i \in 1..Len(text)
      OBVIOUS
    <2>3. \A i \in 1..Len(text) : i \in 0..Len(text)
      BY <1>1
    <2>4. QED
      BY <1>2, <1>3, <2>1, <2>2, <2>3 DEF Fine, Rest
  <1>5. validJSONUnicode(bytes) <=> Fine(text, 1)
    BY TextExact
  <1>6. ASSUME NEW k \in 1..cut PROVE ~validJSONUnicode(SubSeq(bytes, 1, Len(bytes) - k))
    <2>1. text # <<>>
      BY <1>6
    <2>2. k \in 1..(Len(text[Len(text)]) - 1)
      BY <1>6, <2>1 DEF Last
    <2>3. QED
      BY <2>1, <2>2, TextCut
  <1>7. QED
    BY <1>4, <1>5, <1>6 DEF UnicodeExact, unit

\* The empty text is well placed.
LEMMA PlacedInit == Init => WellPlaced(text)
  <1>1. Len(<<>>) = 0 /\ <<>> \in Seq(InsideItems) /\ 1..0 = {}
    OBVIOUS
  <1>2. WellPlaced(<<>>)
    BY <1>1 DEF WellPlaced
  <1>3. QED
    BY <1>2 DEF Init

\* GrowText leaves the text well placed; the other steps do not touch it.
LEMMA PlacedStep == WellPlaced(text) /\ [Next]_vars => WellPlaced(text)'
  <1> SUFFICES ASSUME WellPlaced(text), [Next]_vars PROVE WellPlaced(text)'
    OBVIOUS
  <1>0. WellPlaced(text)' <=> WellPlaced(text')
    BY DEF WellPlaced, In, QuotesTo
  <1>1. CASE GrowText
    <2>1. PICK item \in IF Quotes(text) % 2 = 1 THEN InsideItems ELSE OutsideItems : text' = Append(text, item)
      BY <1>1 DEF GrowText
    <2>2. QED
      BY <1>0, <2>1, PlaceMore
  <1>2. CASE text' = text
    BY <1>0, <1>2
  <1>3. QED
    BY <1>1, <1>2 DEF Next, GrowName, GrowBody, SendBody, Request, vars

\* For texts of every length: validJSONUnicode accepts exactly those whose
\* strings are closed and whose \u escapes are hexadecimal and pair their
\* surrogates, and refuses a text that ends within an escape.
THEOREM UnicodeExactHolds == Spec => []UnicodeExact
  BY PlacedInit, PlacedStep, UnicodeOfPlaced, PTL DEF Spec
=============================================================================
