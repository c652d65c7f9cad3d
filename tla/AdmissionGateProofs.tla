---- MODULE AdmissionGateProofs ----
(***************************************************************************)
(* Theorems about AdmissionGate for any calls, requests and limits, about  *)
(* ProtocolAnswers for any answers of Exchange, and about SeriesAnswers    *)
(* for any series.                                                         *)
(*                                                                         *)
(* Whether a permit is held follows from the stage of one actor (Keeps),   *)
(* so a step of one actor changes the count of a semaphore by what that    *)
(* actor takes or returns.  When futures are dropped many change at once:  *)
(* those who wait stand in a line, hence as many are served as permits     *)
(* come back, or all of them (FirstServed).                                *)
(*                                                                         *)
(* A split of a series counts on from the occurrence where the old series  *)
(* stopped counting, so what it rests on is that ordinals add up           *)
(* (OrdinalsAdd), for a rule of every kind.  The agenda rests on every     *)
(* slot having one date, in order (DatesOrdered), and on the dates it      *)
(* scans being enough (DueIsScanned).                                      *)
(***************************************************************************)
EXTENDS AdmissionGate, ProtocolAnswers, SeriesAnswers, FiniteSetTheorems, TLAPS

CallStages    == {"new"} \cup InCall \cup CallEnds
RequestStages == {"new"} \cup InRequest \cup RequestEnds

\* Actor a holds a permit of s when it is at this stage.
Keeps(s, a, stage) ==
    \/ s = "admitted" /\ a \in Calls /\ stage \in InCall
    \/ s = "running" /\ a \in Calls /\ stage \in {"granted", "running"}
    \/ s = "waiting" /\ a \in Requests /\ stage \in {"queued", "granted"}
    \/ s \in {"reads", "writes"} /\ a \in Requests /\ Gate(a) = s /\ stage \in InRequest \ {"queued"}

Held(s, a, stage) == IF Keeps(s, a, stage) THEN 1 ELSE 0

Types ==
    /\ st \in [Actors -> CallStages \cup RequestStages]
    /\ \A c \in Calls : st[c] \in CallStages
    /\ \A r \in Requests : st[r] \in RequestStages
    /\ free \in [Semaphores -> Nat]
    /\ ahead \in [Actors -> SUBSET Actors]
    /\ sends \in [Requests -> Nat]

\* Those who wait for a semaphore stand in one line.
InLine(s) ==
    /\ \A a \in Line(s) : ahead[a] \subseteq Line(s) \ {a}
    /\ \A a \in Line(s) : \A b \in ahead[a] : ahead[b] \subseteq ahead[a]
    /\ \A a, b \in Line(s) : a # b => a \in ahead[b] \/ b \in ahead[a]

Balanced(s) == free[s] + Cardinality(Holders(s)) = Limit[s]

Permits ==
    \A s \in Semaphores :
        /\ InLine(s)
        /\ Balanced(s)
        /\ Line(s) # {} => free[s] = 0

\* How often a request was sent follows from its stage.
Counted(r) ==
    /\ sends[r] <= Retries(r) + 1
    /\ st[r] \in {"new", "queued", "granted", "busy"} => sends[r] = 0
    /\ st[r] = "sending" => 1 <= sends[r]
    /\ st[r] = "backoff" => 1 <= sends[r] /\ sends[r] <= Retries(r)
    /\ KindOf[r] = "mutation" => st[r] # "network"
Sent == \A r \in Requests : Counted(r)

IInv == Types /\ Permits /\ Sent

----
(* Actors, permits and lines *)

\* An actor is a call or a request, and there are finitely many.
LEMMA ActorFacts ==
    /\ IsFiniteSet(Actors)
    /\ \A c \in Calls : c \in Actors /\ c \notin Requests
    /\ \A r \in Requests : r \in Actors /\ r \notin Calls /\ Gate(r) \in {"reads", "writes"}
    /\ \A a \in Actors : LineOf(a) \in Semaphores
    /\ \A r \in Requests : Retries(r) \in Nat /\ (KindOf[r] # "read" => Retries(r) = 0)
<1>1. IsFiniteSet(Actors)
  BY ActorsAreDistinct, FS_Union DEF Actors
<1>2. \A r \in Requests : Gate(r) \in {"reads", "writes"}
  BY DEF Gate
<1>3. \A r \in Requests : Retries(r) \in Nat /\ (KindOf[r] # "read" => Retries(r) = 0)
  BY LimitsArePositive DEF Retries
<1>4. \A a \in Actors : LineOf(a) \in Semaphores
  BY <1>2 DEF LineOf, Actors, Semaphores
<1> QED BY <1>1, <1>2, <1>3, <1>4, ActorsAreDistinct DEF Actors

\* A guard that is alive is known from the stage of its owner.
LEMMA HoldersFacts ==
    ASSUME NEW s \in Semaphores
    PROVE  /\ Holders(s) = {a \in Actors : Keeps(s, a, st[a])}
           /\ IsFiniteSet(Holders(s)) /\ Cardinality(Holders(s)) \in Nat
<1>1. Holders(s) = {a \in Actors : Keeps(s, a, st[a])}
  <2>1. CASE s = "admitted"
    BY <2>1, ActorFacts DEF Holders, Keeps, Actors
  <2>2. CASE s = "running"
    BY <2>2, ActorFacts DEF Holders, Keeps, Actors
  <2>3. CASE s = "waiting"
    BY <2>3, ActorFacts DEF Holders, Keeps, Actors
  <2>4. CASE s \in {"reads", "writes"}
    BY <2>4, ActorFacts DEF Holders, Keeps, Actors
  <2> QED BY <2>1, <2>2, <2>3, <2>4 DEF Semaphores
<1>2. IsFiniteSet(Holders(s))
  BY <1>1, ActorFacts, FS_Subset
<1> QED BY <1>1, <1>2, FS_CardinalityType

\* The same for the state after a step.
LEMMA HoldersAfter ==
    ASSUME NEW s \in Semaphores
    PROVE  Holders(s)' = {a \in Actors : Keeps(s, a, st'[a])}
<1>1. CASE s = "admitted"
  BY <1>1, ActorFacts DEF Holders, Keeps, Actors
<1>2. CASE s = "running"
  BY <1>2, ActorFacts DEF Holders, Keeps, Actors
<1>3. CASE s = "waiting"
  BY <1>3, ActorFacts DEF Holders, Keeps, Actors
<1>4. CASE s \in {"reads", "writes"}
  BY <1>4, ActorFacts DEF Holders, Keeps, Actors
<1> QED BY <1>1, <1>2, <1>3, <1>4 DEF Semaphores

\* A step of one actor moves the permits of that actor.
LEMMA MoveKeepsBalance ==
    ASSUME Types, NEW s \in Semaphores, Balanced(s), NEW a \in Actors, NEW stage,
           \A b \in Actors \ {a} : st'[b] = st[b], st'[a] = stage,
           free'[s] = free[s] + Held(s, a, st[a]) - Held(s, a, stage)
    PROVE  Balanced(s)'
<1> DEFINE H == Holders(s)
           G == Holders(s)'
<1>1. H = {b \in Actors : Keeps(s, b, st[b])} /\ IsFiniteSet(H) /\ Cardinality(H) \in Nat
  BY HoldersFacts
<1>2. G = {b \in Actors : Keeps(s, b, st'[b])}
  BY HoldersAfter
<1>3. free[s] \in Nat /\ Limit[s] \in Nat /\ free[s] + Cardinality(H) = Limit[s]
  BY LimitsArePositive DEF Types, Balanced
<1>4. SUFFICES free'[s] + Cardinality(G) = Limit[s]
  BY DEF Balanced
<1> HIDE DEF H, G
<1>5. CASE Keeps(s, a, st[a]) /\ Keeps(s, a, stage)
  <2>1. G = H
    BY <1>1, <1>2, <1>5
  <2> QED BY <1>3, <1>5, <1>1, <2>1 DEF Held
<1>6. CASE Keeps(s, a, st[a]) /\ ~Keeps(s, a, stage)
  <2>1. G = H \ {a} /\ a \in H
    BY <1>1, <1>2, <1>6
  <2>2. Cardinality(G) = Cardinality(H) - 1
    BY <1>1, <2>1, FS_RemoveElement
  <2> QED BY <1>3, <1>6, <1>1, <2>2 DEF Held
<1>7. CASE ~Keeps(s, a, st[a]) /\ Keeps(s, a, stage)
  <2>1. G = H \cup {a} /\ a \notin H
    BY <1>1, <1>2, <1>7
  <2>2. Cardinality(G) = Cardinality(H) + 1
    BY <1>1, <2>1, FS_AddElement
  <2> QED BY <1>3, <1>7, <1>1, <2>2 DEF Held
<1>8. CASE ~Keeps(s, a, st[a]) /\ ~Keeps(s, a, stage)
  <2>1. G = H
    BY <1>1, <1>2, <1>8
  <2> QED BY <1>3, <1>8, <1>1, <2>1 DEF Held
<1> QED BY <1>5, <1>6, <1>7, <1>8

\* A set of naturals has a least element.
LEMMA LeastNatural ==
    ASSUME NEW S \in SUBSET Nat, S # {}
    PROVE  \E m \in S : \A n \in S : m <= n
<1> DEFINE below == {1..n : n \in S}
<1>1. IsWellFoundedOn(StrictSubsetOrdering(Nat), FiniteSubsetsOf(Nat))
  BY FS_StrictSubsetOrderingWellFounded
<1>2. below \subseteq FiniteSubsetsOf(Nat) /\ below # {}
  <2>1. \A n \in S : IsFiniteSet(1..n) /\ 1..n \in SUBSET Nat
    BY FS_Interval
  <2>2. \A n \in S : 1..n \in FiniteSubsetsOf(Nat)
    BY <2>1 DEF FiniteSubsetsOf
  <2> QED BY <2>2
<1>3. PICK b \in below : \A d \in below : ~(<<d, b>> \in StrictSubsetOrdering(Nat))
  <2> HIDE DEF below
  <2> QED BY <1>1, <1>2, WFMin
<1>4. PICK m \in S : b = 1..m
  BY <1>3
<1>5. \A n \in S : n < m => 1..n \subseteq 1..m /\ 1..n # 1..m
  OBVIOUS
<1>6. \A n \in S : n < m => <<1..n, 1..m>> \in StrictSubsetOrdering(Nat)
  BY <1>5 DEF StrictSubsetOrdering
<1>7. \A n \in S : ~(n < m)
  BY <1>3, <1>4, <1>6
<1> QED BY <1>7

\* Of those who stand in a line W, ordered by who is before whom, the first k
\* are k, or all.
LEMMA FirstServed ==
    ASSUME NEW W, IsFiniteSet(W), NEW before \in [W -> SUBSET W], NEW k \in Nat,
           \A a \in W : a \notin before[a],
           \A a \in W : \A b \in before[a] : before[b] \subseteq before[a],
           \A a, b \in W : a # b => a \in before[b] \/ b \in before[a]
    PROVE  LET first == {a \in W : Cardinality(before[a]) < k} IN
           /\ IsFiniteSet(first)
           /\ Cardinality(first) \in Nat /\ Cardinality(first) <= k
           /\ W # first => Cardinality(first) = k
<1> DEFINE rank == [a \in W |-> Cardinality(before[a])]
           first == {a \in W : Cardinality(before[a]) < k}
<1>1. \A a \in W : IsFiniteSet(before[a]) /\ rank[a] \in Nat
  BY FS_Subset, FS_CardinalityType
<1>2. ASSUME NEW a \in W, NEW b \in before[a]
      PROVE  rank[b] < rank[a]
  <2>1. b \in W /\ before[b] \subseteq before[a] /\ b \notin before[b]
    OBVIOUS
  <2>2. Cardinality(before[b]) <= Cardinality(before[a]) /\ before[b] # before[a]
    BY <1>1, <2>1, FS_Subset
  <2>3. Cardinality(before[b]) # Cardinality(before[a])
    BY <1>1, <2>1, <2>2, FS_Subset
  <2> QED BY <1>1, <2>1, <2>2, <2>3
<1>3. ASSUME NEW a \in W, NEW b \in W, a # b
      PROVE  rank[a] # rank[b]
  <2>1. CASE a \in before[b]
    <3>1. rank[a] < rank[b]
      BY <1>2, <2>1
    <3> QED BY <1>1, <3>1
  <2>2. CASE b \in before[a]
    <3>1. rank[b] < rank[a]
      BY <1>2, <2>2
    <3> QED BY <1>1, <3>1
  <2> QED BY <1>3, <2>1, <2>2
<1>4. IsFiniteSet(first) /\ Cardinality(first) \in Nat
  BY FS_Subset, FS_CardinalityType
<1>5. Cardinality(first) <= k
  <2> DEFINE f == [a \in first |-> rank[a]]
  <2>1. IsFiniteSet(0..k-1) /\ Cardinality(0..k-1) = k
    BY FS_Interval
  <2>2. f \in [first -> 0..k-1]
    BY <1>1
  <2>3. f \in Injection(first, 0..k-1)
    BY <1>3, <2>2 DEF Injection, IsInjective
  <2> QED BY <2>1, <2>3, FS_Injection
<1>6. ASSUME W # first
      PROVE  k <= Cardinality(first)
  <2> DEFINE late == {rank[a] : a \in W \ first}
  <2>1. late \in SUBSET Nat /\ late # {}
    BY <1>1, <1>6
  <2>2. PICK n \in late : \A i \in late : n <= i
    <3> HIDE DEF late
    <3> QED BY <2>1, LeastNatural
  <2>3. PICK a \in W \ first : n = rank[a]
    BY <2>2
  <2>4. before[a] \subseteq first
    <3>1. ASSUME NEW b \in before[a], b \notin first
          PROVE  FALSE
      <4>1. b \in W \ first /\ rank[b] \in late
        BY <3>1
      <4>2. rank[b] < rank[a] /\ rank[a] \in Nat /\ rank[b] \in Nat
        BY <1>1, <1>2, <4>1
      <4> QED BY <2>2, <2>3, <4>1, <4>2
    <3> QED BY <3>1
  <2>5. Cardinality(before[a]) <= Cardinality(first)
    BY <1>4, <2>4, FS_Subset
  <2>6. k <= Cardinality(before[a]) /\ Cardinality(before[a]) \in Nat
    BY <1>1, <2>3
  <2> QED BY <1>4, <2>5, <2>6
<1> QED BY <1>4, <1>5, <1>6

----
(* Futures that are dropped *)

\* The line of a semaphore without those who are gone is a line.
LEMMA ServedFacts ==
    ASSUME Types, Permits, NEW gone \in SUBSET Actors, NEW s \in Semaphores
    PROVE  LET served == {a \in Served(gone) : LineOf(a) = s} IN
           /\ Returned(gone)[s] = Cardinality(Holders(s) \cap gone) /\ Returned(gone)[s] \in Nat
           /\ served \subseteq Line(s) \ gone
           /\ IsFiniteSet(served)
           /\ Cardinality(served) \in Nat /\ Cardinality(served) <= Returned(gone)[s]
           /\ Line(s) \ gone # served => Cardinality(served) = Returned(gone)[s]
<1> DEFINE W == Line(s) \ gone
           before == [a \in W |-> ahead[a] \ gone]
           k == Returned(gone)[s]
           served == {a \in Served(gone) : LineOf(a) = s}
           first == {a \in W : Cardinality(before[a]) < k}
<1>1. k = Cardinality(Holders(s) \cap gone)
  BY DEF Returned
<1>2. k \in Nat
  <2>1. IsFiniteSet(Holders(s) \cap gone)
    BY HoldersFacts, FS_Intersection
  <2> QED BY <1>1, <2>1, FS_CardinalityType
<1>3. InLine(s) /\ Line(s) \subseteq Actors /\ IsFiniteSet(Line(s))
  <2>1. Line(s) \subseteq Actors
    BY DEF Line
  <2> QED BY <2>1, ActorFacts, FS_Subset DEF Permits
<1>4. IsFiniteSet(W)
  BY <1>3, FS_Subset
<1>5. served = first
  BY DEF Served, Line
<1>6. /\ before \in [W -> SUBSET W]
      /\ \A a \in W : a \notin before[a]
      /\ \A a \in W : \A b \in before[a] : before[b] \subseteq before[a]
      /\ \A a, b \in W : a # b => a \in before[b] \/ b \in before[a]
  BY <1>3 DEF InLine
<1> HIDE DEF W, before, k, served
<1>7. /\ IsFiniteSet(first)
      /\ Cardinality(first) \in Nat /\ Cardinality(first) <= k
      /\ W # first => Cardinality(first) = k
  BY <1>2, <1>4, <1>6, FirstServed
<1> HIDE DEF first
<1>8. served \subseteq W
  BY <1>5 DEF first
<1>9. /\ k = Cardinality(Holders(s) \cap gone) /\ k \in Nat
      /\ served \subseteq W /\ IsFiniteSet(served)
      /\ Cardinality(served) \in Nat /\ Cardinality(served) <= k
      /\ W # served => Cardinality(served) = k
  BY <1>1, <1>2, <1>5, <1>7, <1>8
<1> QED BY <1>9 DEF W, k, served

\* Who holds a permit of s after futures were dropped.
LEMMA HoldersAfterLeave ==
    ASSUME Types, Permits, NEW gone \in SUBSET Actors, NEW fate,
           \A a \in gone : fate[a] \notin InCall \cup InRequest,
           \A a \in Actors : st'[a] = IF a \in gone THEN fate[a]
                                      ELSE IF a \in Served(gone) THEN "granted" ELSE st[a],
           NEW s \in Semaphores
    PROVE  /\ Holders(s)' = (Holders(s) \ gone) \cup {a \in Served(gone) : LineOf(a) = s}
           /\ Line(s)' = Line(s) \ (gone \cup Served(gone))
<1>1. Holders(s) = {a \in Actors : Keeps(s, a, st[a])}
  BY HoldersFacts
<1>2. Holders(s)' = {a \in Actors : Keeps(s, a, st'[a])}
  BY HoldersAfter
<1>3. \A a \in gone : ~Keeps(s, a, st'[a])
  BY DEF Keeps, InCall, InRequest
<1>4. ASSUME NEW a \in Served(gone)
      PROVE  /\ a \in Actors /\ a \notin gone /\ st'[a] = "granted"
             /\ Keeps(s, a, st'[a]) <=> Keeps(s, a, st[a]) \/ LineOf(a) = s
             /\ a \in Line(LineOf(a))
  <2>1. a \in Actors /\ a \notin gone /\ st[a] = "queued" /\ st'[a] = "granted"
    BY DEF Served
  <2>2. CASE a \in Calls
    BY <2>1, <2>2, ActorFacts DEF Keeps, LineOf, Line, InCall, InRequest, Semaphores
  <2>3. CASE a \in Requests
    BY <2>1, <2>3, ActorFacts DEF Keeps, LineOf, Line, InCall, InRequest, Semaphores
  <2> QED BY <2>1, <2>2, <2>3 DEF Actors
<1>5. \A a \in Actors \ (gone \cup Served(gone)) : st'[a] = st[a]
  OBVIOUS
<1>6. Holders(s)' = (Holders(s) \ gone) \cup {a \in Served(gone) : LineOf(a) = s}
  BY <1>1, <1>2, <1>3, <1>4, <1>5
<1>7. Line(s)' = {a \in Actors : st'[a] = "queued" /\ LineOf(a) = s}
  BY DEF Line, LineOf
<1>8. \A a \in gone : st'[a] # "queued"
  BY DEF InCall
<1>9. Line(s)' = Line(s) \ (gone \cup Served(gone))
  BY <1>4, <1>5, <1>7, <1>8 DEF Line
<1> QED BY <1>6, <1>9

\* Dropping futures keeps the permits, the lines and the types, and a request
\* that is served was not sent yet.
LEMMA LeaveKeeps ==
    ASSUME IInv, NEW gone \in SUBSET Actors, NEW fate, Leave(gone, fate), sends' = sends,
           \A c \in gone \cap Calls : fate[c] \in CallEnds,
           \A r \in gone \cap Requests :
               /\ fate[r] \in RequestEnds
               /\ fate[r] = "busy" => sends[r] = 0
               /\ KindOf[r] = "mutation" => fate[r] # "network"
    PROVE  IInv'
<1> DEFINE served == Served(gone)
           at(s) == {a \in served : LineOf(a) = s}
<1>1. /\ free' = [s \in Semaphores |-> free[s] + Returned(gone)[s] - Cardinality(at(s))]
      /\ ahead' = [a \in Actors |-> IF a \in gone \cup served THEN {} ELSE ahead[a] \ (gone \cup served)]
      /\ st' = [a \in Actors |-> IF a \in gone THEN fate[a] ELSE IF a \in served THEN "granted" ELSE st[a]]
  BY DEF Leave
<1>2. \A a \in gone : fate[a] \notin InCall \cup InRequest
  BY DEF Actors, CallEnds, RequestEnds, InCall, InRequest
<1>3. \A a \in served : a \in Actors /\ st[a] = "queued" /\ a \notin gone
  BY DEF Served
<1>a. Types /\ Permits /\ Sent
  BY DEF IInv
<1>4. ASSUME NEW s \in Semaphores
      PROVE  /\ Returned(gone)[s] = Cardinality(Holders(s) \cap gone) /\ Returned(gone)[s] \in Nat
             /\ at(s) \subseteq Line(s) \ gone
             /\ IsFiniteSet(at(s))
             /\ Cardinality(at(s)) \in Nat /\ Cardinality(at(s)) <= Returned(gone)[s]
             /\ Line(s) \ gone # at(s) => Cardinality(at(s)) = Returned(gone)[s]
             /\ Holders(s)' = (Holders(s) \ gone) \cup at(s)
             /\ Line(s)' = Line(s) \ (gone \cup served)
             /\ free'[s] = free[s] + Returned(gone)[s] - Cardinality(at(s))
             /\ free[s] \in Nat
  <2>1. /\ Holders(s)' = (Holders(s) \ gone) \cup at(s)
        /\ Line(s)' = Line(s) \ (gone \cup served)
    BY <1>1, <1>2, <1>a, HoldersAfterLeave
  <2>2. free'[s] = free[s] + Returned(gone)[s] - Cardinality(at(s)) /\ free[s] \in Nat
    BY <1>1, <1>a DEF Types
  <2> QED BY <1>a, <2>1, <2>2, ServedFacts
<1> HIDE DEF served, at
<1>b. ASSUME NEW s \in Semaphores
      PROVE  /\ free'[s] \in Nat
             /\ free[s] = 0 /\ Line(s) \ gone # at(s) => free'[s] = 0
  <2> DEFINE k == Returned(gone)[s]
             n == Cardinality(at(s))
  <2>1. free'[s] = free[s] + k - n /\ free[s] \in Nat /\ k \in Nat /\ n \in Nat /\ n <= k
    BY <1>4
  <2>2. Line(s) \ gone # at(s) => n = k
    BY <1>4
  <2> HIDE DEF k, n
  <2> QED BY <2>1, <2>2
<1>5. Types'
  <2>1. \A c \in Calls : st'[c] \in CallStages
    BY <1>1, <1>a, ActorFacts DEF Types, CallStages, InCall
  <2>2. \A r \in Requests : st'[r] \in RequestStages
    BY <1>1, <1>a, ActorFacts DEF Types, RequestStages, InRequest
  <2>3. st' \in [Actors -> CallStages \cup RequestStages]
    BY <1>1, <2>1, <2>2 DEF Actors
  <2>4. free' \in [Semaphores -> Nat]
    <3>1. free' = [s \in Semaphores |-> free'[s]]
      BY <1>1
    <3> QED BY <1>b, <3>1
  <2>5. ahead' \in [Actors -> SUBSET Actors]
    BY <1>1, <1>a DEF Types
  <2> QED BY <1>a, <2>1, <2>2, <2>3, <2>4, <2>5 DEF Types
<1>6. ASSUME NEW s \in Semaphores
      PROVE  Balanced(s)'
  <2> DEFINE H == Holders(s)
             G == Holders(s)'
             T == at(s)
  <2>1. IsFiniteSet(H) /\ Cardinality(H) \in Nat
    BY HoldersFacts
  <2>2. T \cap H = {}
    <3>1. \A a \in T : st[a] = "queued" /\ LineOf(a) = s /\ a \in Actors
      BY <1>3 DEF at
    <3>2. \A a \in Actors : st[a] = "queued" /\ LineOf(a) = s => ~Keeps(s, a, st[a])
      BY DEF Keeps, LineOf, Gate, InRequest
    <3> QED BY <3>1, <3>2, HoldersFacts
  <2>3. /\ G = (H \ gone) \cup T /\ IsFiniteSet(T) /\ Cardinality(T) \in Nat
        /\ free'[s] = free[s] + Cardinality(H \cap gone) - Cardinality(T) /\ free[s] \in Nat
    BY <1>4
  <2>4. free[s] + Cardinality(H) = Limit[s] /\ Limit[s] \in Nat
    BY <1>a, LimitsArePositive DEF Permits, Balanced
  <2> HIDE DEF H, T, G
  <2>5. /\ IsFiniteSet(H \ gone) /\ Cardinality(H \ gone) = Cardinality(H) - Cardinality(H \cap gone)
        /\ Cardinality(H \ gone) \in Nat /\ Cardinality(H \cap gone) \in Nat
    BY <2>1, FS_Difference, FS_Intersection, FS_CardinalityType
  <2>6. (H \ gone) \cap T = {}
    BY <2>2
  <2>7. Cardinality(G) = Cardinality(H \ gone) + Cardinality(T)
    <3>1. Cardinality((H \ gone) \cap T) = 0
      BY <2>6, FS_EmptySet
    <3>2. Cardinality((H \ gone) \cup T) =
             Cardinality(H \ gone) + Cardinality(T) - Cardinality((H \ gone) \cap T)
      BY <2>3, <2>5, FS_Union
    <3> QED BY <2>3, <2>5, <3>1, <3>2
  <2>8. free'[s] + Cardinality(G) = Limit[s]
    BY <2>1, <2>3, <2>4, <2>5, <2>7
  <2> QED BY <2>8 DEF Balanced, G
<1>7. ASSUME NEW s \in Semaphores
      PROVE  InLine(s)'
  <2>1. InLine(s) /\ Line(s) \subseteq Actors
    BY <1>a DEF Permits, Line
  <2>2. Line(s)' = Line(s) \ (gone \cup served)
    BY <1>4
  <2>3. \A a \in Line(s) \ (gone \cup served) : ahead'[a] = ahead[a] \ (gone \cup served)
    BY <1>1, <2>1
  <2>4. \A a \in Line(s) \ (gone \cup served) : ahead'[a] \subseteq (Line(s) \ (gone \cup served)) \ {a}
    BY <2>1, <2>3 DEF InLine
  <2>5. \A a \in Line(s) \ (gone \cup served) : \A b \in ahead'[a] : ahead'[b] \subseteq ahead'[a]
    BY <2>1, <2>3, <2>4 DEF InLine
  <2>6. \A a, b \in Line(s) \ (gone \cup served) : a # b => a \in ahead'[b] \/ b \in ahead'[a]
    BY <2>1, <2>3 DEF InLine
  <2> QED BY <2>2, <2>4, <2>5, <2>6 DEF InLine
<1>8. ASSUME NEW s \in Semaphores, Line(s)' # {}
      PROVE  free'[s] = 0
  <2>1. PICK a \in Line(s) : a \notin gone /\ a \notin served
    BY <1>4, <1>8
  <2>2. free[s] = 0
    BY <1>a, <2>1 DEF Permits
  <2>3. Line(s) \ gone # at(s)
    BY <2>1 DEF at
  <2> QED BY <1>b, <2>2, <2>3
<1>9. Sent'
  <2>1. ASSUME NEW r \in Requests
        PROVE  Counted(r)'
    <3>1. Counted(r) /\ r \in Actors /\ sends'[r] = sends[r] /\ Retries(r)' = Retries(r)
      BY <1>a, ActorFacts DEF Sent, Retries
    <3>2. CASE r \in gone
      <4>1. st'[r] = fate[r]
        BY <1>1, <3>1, <3>2
      <4> QED BY <3>1, <3>2, <4>1 DEF Counted, RequestEnds
    <3>3. CASE r \in served
      <4>1. st'[r] = "granted" /\ st[r] = "queued"
        BY <1>1, <1>3, <3>1, <3>3
      <4> QED BY <3>1, <4>1 DEF Counted
    <3>4. CASE r \notin gone \cup served
      <4>1. st'[r] = st[r]
        BY <1>1, <3>1, <3>4
      <4> QED BY <3>1, <4>1 DEF Counted
    <3> QED BY <3>2, <3>3, <3>4
  <2> QED BY <2>1 DEF Sent
<1> QED BY <1>5, <1>6, <1>7, <1>8, <1>9 DEF IInv, Permits

----
(* One actor moves *)

\* A call or request that does not wait for a permit changes its stage: it takes
\* and returns permits nobody waits for, or joins the line of one that is not free.
LEMMA MoveKeeps ==
    ASSUME IInv, NEW a \in Actors, NEW stage, st[a] # "queued", st' = [st EXCEPT ![a] = stage],
           a \in Calls => stage \in CallStages, a \in Requests => stage \in RequestStages,
           free' \in [Semaphores -> Nat],
           \A s \in Semaphores : free'[s] = free[s] + Held(s, a, st[a]) - Held(s, a, stage),
           \A s \in Semaphores \ {"waiting"} : free'[s] <= free[s],
           \/ stage # "queued" /\ ahead' = ahead
           \/ stage = "queued" /\ Enqueue(a) /\ free[LineOf(a)] = 0,
           sends' \in [Requests -> Nat], a \in Requests => Counted(a)',
           \A r \in Requests \ {a} : sends'[r] = sends[r]
    PROVE  IInv'
<1>a. Types /\ Permits /\ Sent
  BY DEF IInv
<1>b. st'[a] = stage /\ \A b \in Actors \ {a} : st'[b] = st[b]
  BY <1>a DEF Types
<1>c. ASSUME NEW s \in Semaphores
      PROVE  Line(s)' = {b \in Actors : st'[b] = "queued" /\ LineOf(b) = s}
  BY DEF Line, LineOf
<1>1. Types'
  <2>1. /\ \A c \in Calls : st'[c] \in CallStages
        /\ \A r \in Requests : st'[r] \in RequestStages
    BY <1>a, <1>b DEF Types, Actors
  <2>2. st' \in [Actors -> CallStages \cup RequestStages]
    BY <2>1, <1>a DEF Types, Actors
  <2>3. ahead' \in [Actors -> SUBSET Actors]
    <3>1. Line(LineOf(a)) \subseteq Actors
      BY DEF Line
    <3> QED BY <1>a, <3>1 DEF Types, Enqueue
  <2> QED BY <2>1, <2>2, <2>3 DEF Types
<1>2. ASSUME NEW s \in Semaphores
      PROVE  Balanced(s)'
  BY <1>a, <1>b, MoveKeepsBalance DEF Permits
<1>3. ASSUME NEW s \in Semaphores
      PROVE  InLine(s)' /\ (Line(s)' # {} => free'[s] = 0)
  <2>1. InLine(s) /\ (Line(s) # {} => free[s] = 0) /\ a \notin Line(s)
    BY <1>a DEF Permits, Line
  <2>2. free[s] \in Nat /\ free'[s] \in Nat
    BY <1>a DEF Types
  <2>3. s = "waiting" => Line(s)' = {} /\ Line(s) = {}
    BY <1>c, ActorFacts DEF Line, LineOf, Gate
  <2>4. CASE stage = "queued" /\ LineOf(a) = s
    <3>1. Line(s)' = Line(s) \cup {a}
      BY <1>b, <1>c, <2>4 DEF Line
    <3>2. ahead'[a] = Line(s) /\ (\A b \in Actors \ {a} : ahead'[b] = ahead[b]) /\ free[s] = 0
      BY <1>a, <2>4 DEF Types, Enqueue
    <3>3. InLine(s)'
      <4>1. Line(s) \subseteq Actors \ {a}
        BY <2>1 DEF Line
      <4>2. \A b \in Line(s) : ahead'[b] = ahead[b]
        BY <3>2, <4>1
      <4>3. \A b \in Line(s) \cup {a} : ahead'[b] \subseteq (Line(s) \cup {a}) \ {b}
        BY <2>1, <3>2, <4>2 DEF InLine
      <4>4. \A b \in Line(s) \cup {a} : \A c \in ahead'[b] : ahead'[c] \subseteq ahead'[b]
        BY <2>1, <3>2, <4>2 DEF InLine
      <4>5. \A b, c \in Line(s) \cup {a} : b # c => b \in ahead'[c] \/ c \in ahead'[b]
        BY <2>1, <3>2, <4>2 DEF InLine
      <4> QED BY <3>1, <4>3, <4>4, <4>5 DEF InLine
    <3>4. s # "waiting"
      BY <2>3, <3>1
    <3>5. free'[s] = 0
      BY <2>2, <3>2, <3>4
    <3> QED BY <3>3, <3>5
  <2>5. CASE ~(stage = "queued" /\ LineOf(a) = s)
    <3>1. Line(s)' = Line(s)
      BY <1>b, <1>c, <2>1, <2>5 DEF Line
    <3>2. \A b \in Line(s) : ahead'[b] = ahead[b]
      BY <1>a, <2>1 DEF Types, Enqueue, Line
    <3>3. \A b \in Line(s) : ahead[b] \subseteq Line(s)
      BY <2>1 DEF InLine
    <3>4. InLine(s)'
      BY <2>1, <3>1, <3>2, <3>3 DEF InLine
    <3>5. Line(s)' # {} => free'[s] = 0
      BY <2>1, <2>2, <2>3, <3>1
    <3> QED BY <3>4, <3>5
  <2> QED BY <2>4, <2>5
<1>4. Sent'
  <2>1. ASSUME NEW r \in Requests \ {a}
        PROVE  Counted(r)'
    <3>1. Counted(r) /\ st'[r] = st[r] /\ sends'[r] = sends[r] /\ Retries(r)' = Retries(r)
      BY <1>a, <1>b, ActorFacts DEF Sent, Retries
    <3> QED BY <3>1 DEF Counted
  <2> QED BY <2>1 DEF Sent
<1> QED BY <1>1, <1>2, <1>3, <1>4 DEF IInv, Permits

\* What a call holds at its stages.
LEMMA CallHolds ==
    ASSUME NEW c \in Calls
    PROVE  /\ LineOf(c) = "running"
           /\ \A s \in Semaphores : \A x \in {"new", "busy", "done", "cancelled"} : Held(s, c, x) = 0
           /\ \A s \in Semaphores : Held(s, c, "queued") = IF s = "admitted" THEN 1 ELSE 0
           /\ \A s \in Semaphores : \A x \in {"granted", "running"} :
                 Held(s, c, x) = IF s \in {"admitted", "running"} THEN 1 ELSE 0
BY ActorFacts DEF Held, Keeps, LineOf, InCall, Semaphores

\* What a request holds at its stages.
LEMMA RequestHolds ==
    ASSUME NEW r \in Requests
    PROVE  /\ LineOf(r) = Gate(r)
           /\ \A s \in Semaphores : \A x \in {"new"} \cup RequestEnds : Held(s, r, x) = 0
           /\ \A s \in Semaphores : Held(s, r, "queued") = IF s = "waiting" THEN 1 ELSE 0
           /\ \A s \in Semaphores : Held(s, r, "granted") = IF s \in {"waiting", Gate(r)} THEN 1 ELSE 0
           /\ \A s \in Semaphores : \A x \in {"sending", "backoff"} :
                 Held(s, r, x) = IF s = Gate(r) THEN 1 ELSE 0
<1>1. r \notin Calls /\ Gate(r) \in {"reads", "writes"}
  BY ActorFacts
<1> QED BY <1>1 DEF Held, Keeps, LineOf, InRequest, RequestEnds, Semaphores

\* Taking one permit.
LEMMA TakeFacts ==
    ASSUME Types, NEW s \in Semaphores, free[s] > 0, Take(s)
    PROVE  /\ free' \in [Semaphores -> Nat] /\ free'[s] = free[s] - 1
           /\ \A t \in Semaphores \ {s} : free'[t] = free[t]
BY DEF Types, Take

\* A call is admitted, and runs or waits for its turn.
LEMMA AdmitKeeps ==
    ASSUME IInv, NEW c \in Calls, Admit(c)
    PROVE  IInv'
<1>a. /\ Types /\ c \in Actors /\ c \notin Requests /\ st[c] = "new" /\ free["admitted"] > 0
      /\ sends' = sends /\ sends' \in [Requests -> Nat]
      /\ "admitted" \in Semaphores /\ "running" \in Semaphores
      /\ \A s \in Semaphores : free[s] \in Nat
  BY ActorFacts DEF IInv, Types, Admit, Semaphores
<1>1. CASE free["running"] > 0
  <2>1. /\ free' = [free EXCEPT !["admitted"] = @ - 1, !["running"] = @ - 1]
        /\ st' = [st EXCEPT ![c] = "running"] /\ ahead' = ahead
    BY <1>1 DEF Admit
  <2>2. /\ free' \in [Semaphores -> Nat]
        /\ free'["admitted"] = free["admitted"] - 1 /\ free'["running"] = free["running"] - 1
        /\ \A s \in Semaphores \ {"admitted", "running"} : free'[s] = free[s]
    BY <1>a, <1>1, <2>1 DEF Types
  <2>3. \A s \in Semaphores : free'[s] = free[s] + Held(s, c, st[c]) - Held(s, c, "running")
    BY <1>a, <2>2, CallHolds
  <2>4. \A s \in Semaphores \ {"waiting"} : free'[s] <= free[s]
    BY <1>a, <2>2
  <2>5. "running" \in CallStages
    BY DEF CallStages, InCall
  <2> QED BY <1>a, <2>1, <2>2, <2>3, <2>4, <2>5, MoveKeeps
<1>2. CASE ~(free["running"] > 0)
  <2>1. Take("admitted") /\ st' = [st EXCEPT ![c] = "queued"] /\ Enqueue(c)
    BY <1>2 DEF Admit
  <2>2. /\ free' \in [Semaphores -> Nat] /\ free'["admitted"] = free["admitted"] - 1
        /\ \A s \in Semaphores \ {"admitted"} : free'[s] = free[s]
    BY <1>a, <2>1, TakeFacts
  <2>3. \A s \in Semaphores : free'[s] = free[s] + Held(s, c, st[c]) - Held(s, c, "queued")
    BY <1>a, <2>2, CallHolds
  <2>4. \A s \in Semaphores \ {"waiting"} : free'[s] <= free[s]
    BY <1>a, <2>2
  <2>5. "queued" \in CallStages /\ free[LineOf(c)] = 0
    BY <1>a, <1>2, CallHolds DEF CallStages, InCall
  <2> QED BY <1>a, <2>1, <2>2, <2>3, <2>4, <2>5, MoveKeeps
<1> QED BY <1>1, <1>2

\* A call that is turned away holds nothing, before and after.
LEMMA TurnAwayKeeps ==
    ASSUME IInv, NEW c \in Calls, TurnAway(c)
    PROVE  IInv'
<1>a. /\ Types /\ c \in Actors /\ c \notin Requests /\ st[c] = "new" /\ st' = [st EXCEPT ![c] = "busy"]
      /\ free' = free /\ ahead' = ahead /\ sends' = sends
      /\ free' \in [Semaphores -> Nat] /\ sends' \in [Requests -> Nat]
      /\ \A s \in Semaphores : free[s] \in Nat
  BY ActorFacts DEF IInv, Types, TurnAway
<1>1. \A s \in Semaphores : free'[s] = free[s] + Held(s, c, st[c]) - Held(s, c, "busy")
  BY <1>a, CallHolds
<1>2. "busy" \in CallStages
  BY DEF CallStages, CallEnds
<1>3. \A s \in Semaphores \ {"waiting"} : free'[s] <= free[s]
  BY <1>a
<1> QED BY <1>a, <1>1, <1>2, <1>3, MoveKeeps

\* A call runs that was granted its permit.
LEMMA RunKeeps ==
    ASSUME IInv, NEW c \in Calls, Run(c)
    PROVE  IInv'
<1>a. /\ Types /\ c \in Actors /\ c \notin Requests /\ st[c] = "granted" /\ st' = [st EXCEPT ![c] = "running"]
      /\ free' = free /\ ahead' = ahead /\ sends' = sends
      /\ free' \in [Semaphores -> Nat] /\ sends' \in [Requests -> Nat]
      /\ \A s \in Semaphores : free[s] \in Nat
  BY ActorFacts DEF IInv, Types, Run
<1>1. \A s \in Semaphores : free'[s] = free[s] + Held(s, c, st[c]) - Held(s, c, "running")
  BY <1>a, CallHolds
<1>2. "running" \in CallStages
  BY DEF CallStages, InCall
<1>3. \A s \in Semaphores \ {"waiting"} : free'[s] <= free[s]
  BY <1>a
<1> QED BY <1>a, <1>1, <1>2, <1>3, MoveKeeps

\* A request is sent at once, waits for its permit or is turned away.
LEMMA AskKeeps ==
    ASSUME IInv, NEW r \in Requests, Ask(r)
    PROVE  IInv'
<1>a. /\ Types /\ Counted(r) /\ r \in Actors /\ r \notin Calls /\ st[r] = "new"
      /\ Gate(r) \in {"reads", "writes"} /\ Gate(r) \in Semaphores /\ "waiting" \in Semaphores
      /\ \A s \in Semaphores : free[s] \in Nat
      /\ sends \in [Requests -> Nat] /\ Retries(r) \in Nat /\ Retries(r)' = Retries(r)
  BY ActorFacts DEF IInv, Types, Sent, Ask, Semaphores, Retries
<1>1. CASE /\ free[Gate(r)] > 0 /\ Take(Gate(r)) /\ st' = [st EXCEPT ![r] = "sending"]
           /\ sends' = [sends EXCEPT ![r] = 1] /\ ahead' = ahead
  <2>1. /\ free' \in [Semaphores -> Nat] /\ free'[Gate(r)] = free[Gate(r)] - 1
        /\ \A s \in Semaphores \ {Gate(r)} : free'[s] = free[s]
    BY <1>a, <1>1, TakeFacts
  <2>2. \A s \in Semaphores : free'[s] = free[s] + Held(s, r, st[r]) - Held(s, r, "sending")
    BY <1>a, <2>1, RequestHolds
  <2>3. \A s \in Semaphores \ {"waiting"} : free'[s] <= free[s]
    BY <1>a, <2>1
  <2>4. /\ sends' \in [Requests -> Nat] /\ sends'[r] = 1
        /\ \A q \in Requests \ {r} : sends'[q] = sends[q]
    BY <1>a, <1>1
  <2>5. st'[r] = "sending" /\ "sending" \in RequestStages
    BY <1>a, <1>1 DEF Types, RequestStages, InRequest
  <2>6. Counted(r)'
    BY <1>a, <2>4, <2>5 DEF Counted
  <2> QED BY <1>a, <1>1, <2>1, <2>2, <2>3, <2>4, <2>5, <2>6, MoveKeeps
<1>2. CASE /\ free[Gate(r)] = 0 /\ free["waiting"] > 0 /\ Take("waiting")
           /\ st' = [st EXCEPT ![r] = "queued"] /\ Enqueue(r) /\ sends' = sends
  <2>1. /\ free' \in [Semaphores -> Nat] /\ free'["waiting"] = free["waiting"] - 1
        /\ \A s \in Semaphores \ {"waiting"} : free'[s] = free[s]
    BY <1>a, <1>2, TakeFacts
  <2>2. \A s \in Semaphores : free'[s] = free[s] + Held(s, r, st[r]) - Held(s, r, "queued")
    BY <1>a, <2>1, RequestHolds
  <2>3. \A s \in Semaphores \ {"waiting"} : free'[s] <= free[s]
    BY <1>a, <2>1
  <2>4. st'[r] = "queued" /\ "queued" \in RequestStages /\ free[LineOf(r)] = 0
    BY <1>a, <1>2, RequestHolds DEF Types, RequestStages, InRequest
  <2>5. Counted(r)'
    BY <1>a, <1>2, <2>4 DEF Counted
  <2> QED BY <1>a, <1>2, <2>1, <2>2, <2>3, <2>4, <2>5, MoveKeeps
<1>3. CASE /\ st' = [st EXCEPT ![r] = "busy"] /\ free' = free /\ ahead' = ahead /\ sends' = sends
  <2>1. \A s \in Semaphores : free'[s] = free[s] + Held(s, r, st[r]) - Held(s, r, "busy")
    BY <1>a, <1>3, RequestHolds DEF RequestEnds
  <2>2. \A s \in Semaphores \ {"waiting"} : free'[s] <= free[s]
    BY <1>a, <1>3
  <2>3. st'[r] = "busy" /\ "busy" \in RequestStages
    BY <1>a, <1>3 DEF Types, RequestStages, RequestEnds
  <2>4. Counted(r)'
    BY <1>a, <1>3, <2>3 DEF Counted
  <2>5. free' \in [Semaphores -> Nat]
    BY <1>a, <1>3 DEF Types
  <2> QED BY <1>a, <1>3, <2>1, <2>2, <2>3, <2>4, <2>5, MoveKeeps
<1> QED BY <1>1, <1>2, <1>3 DEF Ask

\* A request that was granted its permit leaves the waiting room and is sent.
LEMMA StartSendingKeeps ==
    ASSUME IInv, NEW r \in Requests, StartSending(r)
    PROVE  IInv'
<1>a. /\ Types /\ Counted(r) /\ r \in Actors /\ r \notin Calls /\ st[r] = "granted"
      /\ Gate(r) \in {"reads", "writes"}
      /\ \A s \in Semaphores : free[s] \in Nat
      /\ sends \in [Requests -> Nat] /\ Retries(r) \in Nat /\ Retries(r)' = Retries(r)
      /\ st' = [st EXCEPT ![r] = "sending"] /\ ahead' = ahead
  BY ActorFacts DEF IInv, Types, Sent, StartSending, Semaphores, Retries
<1>1. /\ free' \in [Semaphores -> Nat] /\ free'["waiting"] = free["waiting"] + 1
      /\ \A s \in Semaphores \ {"waiting"} : free'[s] = free[s]
  BY <1>a DEF StartSending, Types, Semaphores
<1>2. \A s \in Semaphores : free'[s] = free[s] + Held(s, r, st[r]) - Held(s, r, "sending")
  BY <1>a, <1>1, RequestHolds
<1>3. \A s \in Semaphores \ {"waiting"} : free'[s] <= free[s]
  BY <1>a, <1>1
<1>4. /\ sends' \in [Requests -> Nat] /\ sends'[r] = 1
      /\ \A q \in Requests \ {r} : sends'[q] = sends[q]
  BY <1>a DEF StartSending
<1>5. st'[r] = "sending" /\ "sending" \in RequestStages
  BY <1>a DEF Types, RequestStages, InRequest
<1>6. Counted(r)'
  BY <1>a, <1>4, <1>5 DEF Counted
<1> QED BY <1>a, <1>1, <1>2, <1>3, <1>4, <1>5, <1>6, MoveKeeps

\* The permit is held between the tries of a request.
LEMMA RetryKeeps ==
    ASSUME IInv, NEW r \in Requests, ahead' = ahead, free' = free,
           \/ /\ st[r] = "sending" /\ sends[r] <= Retries(r)
              /\ st' = [st EXCEPT ![r] = "backoff"] /\ sends' = sends
           \/ Resend(r)
    PROVE  IInv'
<1>a. /\ Types /\ Counted(r) /\ r \in Actors /\ r \notin Calls
      /\ \A s \in Semaphores : free[s] \in Nat
      /\ sends \in [Requests -> Nat] /\ Retries(r) \in Nat /\ Retries(r)' = Retries(r)
      /\ free' \in [Semaphores -> Nat]
  BY ActorFacts DEF IInv, Types, Sent, Retries
<1>b. \A s \in Semaphores \ {"waiting"} : free'[s] <= free[s]
  BY <1>a
<1>c. "backoff" \in RequestStages /\ "sending" \in RequestStages
  BY DEF RequestStages, InRequest
<1>1. CASE /\ st[r] = "sending" /\ sends[r] <= Retries(r)
           /\ st' = [st EXCEPT ![r] = "backoff"] /\ sends' = sends
  <2>1. \A s \in Semaphores : free'[s] = free[s] + Held(s, r, st[r]) - Held(s, r, "backoff")
    BY <1>a, <1>1, RequestHolds
  <2>2. st'[r] = "backoff"
    BY <1>a, <1>1 DEF Types
  <2>3. Counted(r)'
    BY <1>a, <1>1, <2>2 DEF Counted
  <2> QED BY <1>a, <1>b, <1>c, <1>1, <2>1, <2>3, MoveKeeps
<1>2. CASE Resend(r)
  <2>0. st[r] = "backoff" /\ st' = [st EXCEPT ![r] = "sending"] /\ sends' = [sends EXCEPT ![r] = @ + 1]
    BY <1>2 DEF Resend
  <2>1. \A s \in Semaphores : free'[s] = free[s] + Held(s, r, st[r]) - Held(s, r, "sending")
    BY <1>a, <2>0, RequestHolds
  <2>2. st'[r] = "sending"
    BY <1>a, <2>0 DEF Types
  <2>3. /\ sends' \in [Requests -> Nat] /\ sends'[r] = sends[r] + 1
        /\ \A q \in Requests \ {r} : sends'[q] = sends[q]
    BY <1>a, <2>0
  <2>4. Counted(r)'
    BY <1>a, <2>0, <2>2, <2>3 DEF Counted
  <2> QED BY <1>a, <1>b, <1>c, <2>0, <2>1, <2>3, <2>4, MoveKeeps
<1> QED BY <1>1, <1>2

----
(* Calls and requests that end *)

\* The end of a single call or request.
LEMMA EndKeeps ==
    ASSUME IInv, NEW a \in Actors, NEW outcome, End(a, outcome), sends' = sends,
           a \in Calls => outcome \in CallEnds,
           a \in Requests => /\ outcome \in RequestEnds
                             /\ outcome = "busy" => sends[a] = 0
                             /\ KindOf[a] = "mutation" => outcome # "network"
    PROVE  IInv'
<1> DEFINE fate == [x \in {a} |-> outcome]
<1>1. Leave({a}, fate)
  BY DEF End
<1>2. fate[a] = outcome
  OBVIOUS
<1> HIDE DEF fate
<1>3. /\ {a} \in SUBSET Actors
      /\ \A c \in {a} \cap Calls : fate[c] \in CallEnds
      /\ \A r \in {a} \cap Requests :
            /\ fate[r] \in RequestEnds
            /\ fate[r] = "busy" => sends[r] = 0
            /\ KindOf[r] = "mutation" => fate[r] # "network"
  BY <1>2
<1> QED BY <1>1, <1>3, LeaveKeeps

\* A cancelled call takes its requests along.
LEMMA CancelKeeps ==
    ASSUME IInv, NEW c \in Calls, Cancel(c)
    PROVE  IInv'
<1> DEFINE flying == {r \in RequestsOf(c) : st[r] \in InRequest}
           gone == flying \cup {c}
           fate == [a \in gone |-> IF a = c THEN "cancelled" ELSE "dropped"]
<1>1. Leave(gone, fate) /\ sends' = sends
  BY DEF Cancel
<1>2. gone \in SUBSET Actors /\ c \notin Requests /\ flying \subseteq Requests
  BY ActorFacts DEF RequestsOf
<1>3. \A a \in gone : fate[a] = IF a = c THEN "cancelled" ELSE "dropped"
  OBVIOUS
<1>4. \A x \in gone \cap Calls : x = c
  BY <1>2, ActorFacts
<1> HIDE DEF fate, gone
<1>5. /\ \A x \in gone \cap Calls : fate[x] \in CallEnds
      /\ \A r \in gone \cap Requests : fate[r] = "dropped" /\ fate[r] \in RequestEnds
  BY <1>2, <1>3, <1>4 DEF CallEnds, RequestEnds
<1> QED BY <1>1, <1>2, <1>5, LeaveKeeps

\* The steps of a request that was asked for.
LEMMA RequestStepKeeps ==
    ASSUME IInv, NEW r \in Requests, RequestStep(r)
    PROVE  IInv'
<1>a. r \in Actors /\ r \notin Calls /\ Counted(r)
  BY ActorFacts DEF IInv, Sent
<1>b. /\ FinalError(r) \in RequestEnds /\ FinalError(r) # "busy"
      /\ KindOf[r] = "mutation" => FinalError(r) # "network"
  BY DEF FinalError, RequestEnds
<1>1. CASE StartSending(r)
  BY <1>1, StartSendingKeeps
<1>2. CASE GiveUpWaiting(r)
  <2>1. End(r, "busy") /\ sends' = sends /\ sends[r] = 0 /\ "busy" \in RequestEnds
    BY <1>a, <1>2 DEF GiveUpWaiting, Counted, RequestEnds
  <2> QED BY <1>a, <2>1, EndKeeps
<1>3. CASE Answered(r)
  <2>1. PICK outcome \in {"answered", FinalError(r)} : End(r, outcome)
    BY <1>3 DEF Answered
  <2>2. /\ outcome \in RequestEnds /\ outcome # "busy" /\ sends' = sends
        /\ KindOf[r] = "mutation" => outcome # "network"
    BY <1>3, <1>b, <2>1 DEF Answered, RequestEnds
  <2> QED BY <1>a, <2>1, <2>2, EndKeeps
<1>4. CASE SendFails(r)
  <2>1. CASE sends[r] > Retries(r) /\ End(r, FinalError(r))
    <3>1. sends' = sends
      BY <1>4 DEF SendFails
    <3> QED BY <1>a, <1>b, <2>1, <3>1, EndKeeps
  <2>2. CASE sends[r] <= Retries(r) /\ st' = [st EXCEPT ![r] = "backoff"] /\ UNCHANGED <<free, ahead>>
    <3>1. sends' = sends /\ st[r] = "sending"
      BY <1>4 DEF SendFails
    <3> QED BY <2>2, <3>1, RetryKeeps
  <2> QED BY <1>4, <2>1, <2>2 DEF SendFails
<1>5. CASE Resend(r)
  <2>1. free' = free /\ ahead' = ahead
    BY <1>5 DEF Resend
  <2> QED BY <1>5, <2>1, RetryKeeps
<1> QED BY <1>1, <1>2, <1>3, <1>4, <1>5 DEF RequestStep

----
(* The invariant and what follows from it *)

\* Every permit is free at first.
LEMMA InitIInv == Init => IInv
<1> SUFFICES ASSUME Init PROVE IInv
  OBVIOUS
<1>1. \A a \in Actors : st[a] = "new"
  BY DEF Init
<1>2. Types
  BY LimitsArePositive DEF Init, Types, Actors, CallStages, RequestStages
<1>3. ASSUME NEW s \in Semaphores
      PROVE  InLine(s) /\ Balanced(s) /\ Line(s) = {}
  <2>1. Holders(s) = {}
    BY <1>1, HoldersFacts DEF Keeps, InCall, InRequest
  <2>2. free[s] = Limit[s] /\ Limit[s] \in Nat
    BY LimitsArePositive DEF Init
  <2>3. Line(s) = {}
    BY <1>1 DEF Line
  <2> QED BY <2>1, <2>2, <2>3, FS_EmptySet DEF Balanced, InLine
<1>4. Sent
  BY <1>1, ActorFacts DEF Init, Sent, Counted
<1> QED BY <1>2, <1>3, <1>4 DEF IInv, Permits

\* Every step keeps the invariant.
LEMMA StepIInv == IInv /\ [Next]_vars => IInv'
<1> SUFFICES ASSUME IInv, [Next]_vars PROVE IInv'
  OBVIOUS
<1>1. CASE UNCHANGED vars
  <2>1. st' = st /\ free' = free /\ ahead' = ahead /\ sends' = sends
    BY <1>1 DEF vars
  <2>2. Types' /\ Sent'
    BY <2>1 DEF IInv, Types, Sent, Counted, Retries
  <2>3. ASSUME NEW s \in Semaphores
        PROVE  Holders(s)' = Holders(s) /\ Line(s)' = Line(s)
    BY <2>1, HoldersFacts, HoldersAfter DEF Line, LineOf
  <2>4. Permits'
    BY <2>1, <2>3 DEF IInv, Permits, InLine, Balanced
  <2> QED BY <2>2, <2>4 DEF IInv
<1>2. ASSUME NEW c \in Calls, Admit(c) \/ TurnAway(c) \/ Cancel(c) \/ Run(c)
      PROVE  IInv'
  BY <1>2, AdmitKeeps, TurnAwayKeeps, CancelKeeps, RunKeeps
<1>3. ASSUME NEW c \in Calls, GiveUpRunning(c) \/ Finish(c)
      PROVE  IInv'
  <2>1. PICK outcome \in CallEnds : End(c, outcome) /\ sends' = sends
    BY <1>3 DEF GiveUpRunning, Finish, CallEnds
  <2>2. c \in Actors /\ c \notin Requests
    BY ActorFacts
  <2> QED BY <2>1, <2>2, EndKeeps
<1>4. ASSUME NEW r \in Requests, Ask(r) \/ RequestStep(r)
      PROVE  IInv'
  BY <1>4, AskKeeps, RequestStepKeeps
<1> QED BY <1>1, <1>2, <1>3, <1>4 DEF Next, Progress

\* Permits balance, lines are lines, and what was sent is known from the stage:
\* call_tool of mcp/mod.rs, Gate::acquire of transport/admission.rs and
\* HttpTransport::command of transport.rs, with tokio's semaphores.
THEOREM Invariance == Spec => []IInv
<1>1. Init => IInv
  BY InitIInv
<1>2. IInv /\ [Next]_vars => IInv'
  BY StepIInv
<1> QED BY <1>1, <1>2, PTL DEF Spec

\* No limit, no number of calls and requests and no moment of a cancellation
\* loses a permit, invents one or lets one idle while somebody waits: the guards
\* of call_tool and of Gate::acquire are dropped exactly once.
THEOREM PermitsAreKept == Spec => []PermitsAddUp
<1>1. IInv => PermitsAddUp
  <2> SUFFICES ASSUME IInv PROVE PermitsAddUp
    OBVIOUS
  <2>1. TypeOK
    <3>1. \A r \in Requests : sends[r] \in 0..ReadRetries + 1
      <4>1. \A r \in Requests : sends[r] \in Nat /\ sends[r] <= Retries(r) + 1 /\ Retries(r) <= ReadRetries
        BY LimitsArePositive DEF IInv, Types, Sent, Counted, Retries
      <4> QED BY <4>1, LimitsArePositive, ActorFacts
    <3>2. sends \in [Requests -> 0..ReadRetries + 1]
      BY <3>1 DEF IInv, Types
    <3> QED BY <3>2 DEF IInv, Types, TypeOK, CallStages, RequestStages
  <2>2. ASSUME NEW s \in Semaphores
        PROVE  /\ free[s] + Cardinality(Holders(s)) = Limit[s]
               /\ \A a \in Line(s) : ahead[a] \subseteq Line(s) \ {a}
               /\ \A a, b \in Line(s) : a # b => (a \in ahead[b] <=> b \notin ahead[a])
               /\ Line(s) # {} => free[s] = 0
    <3>1. InLine(s) /\ Balanced(s) /\ (Line(s) # {} => free[s] = 0)
      BY DEF IInv, Permits
    <3>2. \A a, b \in Line(s) : a \in ahead[b] => b \notin ahead[a]
      BY <3>1 DEF InLine
    <3> QED BY <3>1, <3>2 DEF InLine, Balanced
  <2> QED BY <2>1, <2>2 DEF PermitsAddUp
<1> QED BY <1>1, Invariance, PTL

\* What final_error and response_error of transport.rs tell of a mutation: "busy"
\* and a network error mean that nothing was handed to the network, and no
\* mutation is handed to it twice.
THEOREM FailuresAreUnsent == Spec => []FailureMeansUnsent
<1>1. IInv => FailureMeansUnsent
  <2> SUFFICES ASSUME IInv, NEW r \in Requests, KindOf[r] = "mutation"
               PROVE  (st[r] \in {"busy", "network"} => sends[r] = 0) /\ sends[r] <= 1
    BY DEF FailureMeansUnsent
  <2>1. Counted(r) /\ Retries(r) = 0
    BY ActorFacts DEF IInv, Sent
  <2> QED BY <2>1 DEF Counted
<1> QED BY <1>1, Invariance, PTL

----
(***************************************************************************)
(* Answers to writes                                                       *)
(***************************************************************************)

\* What a parser makes of a document is a success if and only if the document
\* tells of one in full, and a failure only if it gives the reason.
JudgesWell(command, document, parsed) ==
    /\ parsed.is = "told" \/ (parsed.is = "error" /\ parsed.kind \in {"protocol", "key", "wipe"})
    /\ parsed.is = "told" /\ parsed.status = SuccessOf(command) => AllSuccess(command, document)
    /\ AllSuccess(command, document) => parsed.is = "told" /\ parsed.status = SuccessOf(command)
    /\ /\ parsed.is = "told" /\ parsed.status # SuccessOf(command)
       /\ ~(command.is = "replies" /\ parsed.status \in {110, 111})
       => Refusal(command, document)
    /\ parsed.is = "error" /\ parsed.kind # "protocol" => Refusal(command, document)

LEMMA ToldOrError ==
    /\ \A status, key : Told(status, key).is = "told" /\ Told(status, key).status = status
    /\ \A kind : Error(kind).is = "error" /\ Error(kind).kind = kind
    /\ NotUnderstood.is = "error" /\ NotUnderstood.kind = "protocol"
BY DEF Told, Error, NotUnderstood

LEMMA NumbersKnown ==
    /\ NoField \notin Int /\ NoField \notin {"own", "other", "0", "key", "id"}
    /\ StatusNumbers.compose \subseteq Int /\ StatusNumbers.sync \subseteq Int /\ StatusNumbers.item \subseteq Int
    /\ StatusNumbers.move \subseteq Int /\ StatusNumbers.respond \subseteq Int /\ StatusNumbers.replies \subseteq Int
BY NumbersAreNumbers, NothingIsNoValue

LEMMA ComposeJudged ==
    ASSUME NEW command, command.is = "compose",
           NEW document \in [name : {"SendMail", "SmartReply"}, status : StatusNumbers.compose],
           document \notin {NoBody, Garbled}
    PROVE  JudgesWell(command, document, ParseCompose(document, command.name))
<1>1. PICK name : name = document.name
  OBVIOUS
<1>2. PICK status \in Int : status = document.status
  BY NumbersKnown
<1>3. /\ SuccessOf(command) = 1 /\ ~AllSuccess(command, document)
      /\ Passes(command, status) <=> status = 1
      /\ Levels(command, document).overall = status
  BY <1>2, NumbersKnown DEF SuccessOf, AllSuccess, Complete, Passes, Success, Levels
<1>4. CASE name # command.name \/ status \notin DefiniteRejections
  <2>1. ParseCompose(document, command.name) = NotUnderstood
    BY <1>1, <1>2, <1>4 DEF ParseCompose
  <2> QED
    BY <1>3, <2>1, ToldOrError DEF JudgesWell
<1>5. CASE name = command.name /\ status \in DefiniteRejections
  <2>1. Reason(command, status) /\ status # 1
    BY <1>5 DEF Reason, DefiniteRejections
  <2>2. Refusal(command, document)
    BY <1>1, <1>3, <1>5, <2>1 DEF Refusal, About
  <2>3. ParseCompose(document, command.name) \in {Error("wipe"), Told(status, NoField)}
    BY <1>1, <1>2, <1>5 DEF ParseCompose
  <2> QED
    BY <1>3, <2>1, <2>2, <2>3, ToldOrError DEF JudgesWell
<1> QED
  BY <1>4, <1>5

LEMMA MoveJudged ==
    ASSUME NEW command, command.is = "move",
           NEW document \in [overall : {NoField} \union StatusNumbers.move, id : Identifiers,
                             status : StatusNumbers.move, server : {NoField, "id"}],
           document \notin {NoBody, Garbled}
    PROVE  JudgesWell(command, document, ParseMove(document))
<1>2. PICK status \in Int : status = document.status
  BY NumbersKnown
<1>3. /\ SuccessOf(command) = 3
      /\ Passes(command, status) <=> status = 3
      /\ Levels(command, document).overall = status
      /\ Passes(command, Levels(command, document).folder)
      /\ Passes(command, Levels(command, document).item)
  BY <1>2, NumbersKnown DEF SuccessOf, Passes, Success, Levels
<1>4. About(command, document) <=> document.overall = NoField /\ document.id = "own"
  BY DEF About
<1>5. Complete(command, document) <=> document.server # NoField
  BY NumbersKnown DEF Complete
<1>6. AllSuccess(command, document) <=> About(command, document) /\ document.server # NoField /\ status = 3
  BY <1>3, <1>5 DEF AllSuccess
<1>7. CASE ~About(command, document) \/ status \notin {1, 2, 3, 4, 5, 7} \/ (status = 3 /\ document.server = NoField)
  <2>1. ParseMove(document) = NotUnderstood
    BY <1>2, <1>4, <1>7 DEF ParseMove
  <2> QED
    BY <1>6, <1>7, <2>1, ToldOrError DEF JudgesWell
<1>8. CASE About(command, document) /\ status \in {1, 2, 3, 4, 5, 7} /\ (status = 3 => document.server # NoField)
  <2>1. ParseMove(document) = Told(status, NoField)
    BY <1>2, <1>4, <1>8 DEF ParseMove
  <2>2. status # 3 => Reason(command, status)
    BY <1>8 DEF Reason
  <2>3. status # 3 => Refusal(command, document)
    BY <1>3, <1>8, <2>2 DEF Refusal
  <2> QED
    BY <1>3, <1>6, <1>8, <2>1, <2>3, ToldOrError DEF JudgesWell
<1> QED
  BY <1>7, <1>8

LEMMA RespondJudged ==
    ASSUME NEW command, command.is = "respond",
           NEW document \in [status : StatusNumbers.respond, id : Identifiers], document \notin {NoBody, Garbled}
    PROVE  JudgesWell(command, document, ParseResponse(document))
<1>2. PICK status \in Int : status = document.status
  BY NumbersKnown
<1>3. /\ SuccessOf(command) = 1
      /\ Passes(command, status) <=> status = 1
      /\ Levels(command, document).overall = status
      /\ Passes(command, Levels(command, document).folder)
      /\ Passes(command, Levels(command, document).item)
      /\ About(command, document) <=> document.id # "other"
      /\ Complete(command, document)
  BY <1>2, NumbersKnown DEF SuccessOf, Passes, Success, Levels, About, Complete
<1>6. AllSuccess(command, document) <=> document.id # "other" /\ status = 1
  BY <1>3 DEF AllSuccess
<1>7. CASE document.id = "other" \/ status \notin 1 .. 4
  <2>1. ParseResponse(document) = NotUnderstood
    BY <1>2, <1>7 DEF ParseResponse
  <2> QED
    BY <1>6, <1>7, <2>1, ToldOrError DEF JudgesWell
<1>8. CASE document.id # "other" /\ status \in 1 .. 4
  <2>1. ParseResponse(document) = Told(status, NoField)
    BY <1>2, <1>8 DEF ParseResponse
  <2>2. status # 1 => Reason(command, status)
    BY <1>8 DEF Reason
  <2>3. status # 1 => Refusal(command, document)
    BY <1>3, <1>8, <2>2 DEF Refusal
  <2> QED
    BY <1>3, <1>6, <1>8, <2>1, <2>3, ToldOrError DEF JudgesWell
<1> QED
  BY <1>7, <1>8

LEMMA RepliesJudged ==
    ASSUME NEW command, command.is = "replies",
           NEW document \in [outer : StatusNumbers.replies, inner : {NoField} \union StatusNumbers.replies],
           document \notin {NoBody, Garbled}
    PROVE  JudgesWell(command, document, ParseReplies(document))
<1>1. PICK outer \in Int : outer = document.outer
  BY NumbersKnown
<1>2. PICK inner \in Int \union {NoField} : inner = document.inner
  BY NumbersKnown
<1>3. /\ SuccessOf(command) = 1 /\ About(command, document)
      /\ \A n : Passes(command, n) <=> n \in {1, NoField}
      /\ Levels(command, document).overall = outer /\ Levels(command, document).folder = inner
      /\ Levels(command, document).item = NoField
      /\ Complete(command, document) <=> inner # NoField
      /\ outer # NoField
  BY <1>1, <1>2, NumbersKnown DEF SuccessOf, Passes, Success, Levels, About, Complete
<1>4. AllSuccess(command, document) <=> outer = 1 /\ inner = 1
  BY <1>3 DEF AllSuccess
<1>5. CASE outer \notin Common \union (1 .. 7) \/ (outer = 1 /\ inner \notin Common \union {1, 2, 5, 6})
  <2>1. ParseReplies(document) = NotUnderstood
    BY <1>1, <1>2, <1>5 DEF ParseReplies
  <2> QED
    BY <1>4, <1>5, <2>1, ToldOrError DEF JudgesWell
<1>6. CASE outer \in Common \union (1 .. 7) /\ outer # 1
  <2>1. ParseReplies(document) = Told(outer, NoField)
    BY <1>1, <1>2, <1>6 DEF ParseReplies
  <2>2. outer \notin {110, 111} => Reason(command, outer)
    BY <1>6 DEF Reason, Common
  <2>3. outer \notin {110, 111} => Refusal(command, document)
    BY <1>3, <1>6, <2>2 DEF Refusal
  <2> QED
    BY <1>3, <1>4, <1>6, <2>1, <2>3, ToldOrError DEF JudgesWell
<1>7. CASE outer = 1 /\ inner \in Common \union {1, 2, 5, 6}
  <2>0. inner # NoField
    BY <1>7, NumbersKnown DEF Common
  <2>1. ParseReplies(document) = Told(inner, NoField)
    BY <1>1, <1>2, <1>7 DEF ParseReplies, Common
  <2>2. inner \notin {1, 110, 111} => Reason(command, inner)
    BY <1>7 DEF Reason, Common
  <2>3. inner \notin {1, 110, 111} => Refusal(command, document)
    BY <1>3, <1>7, <2>0, <2>2 DEF Refusal
  <2> QED
    BY <1>3, <1>4, <1>7, <2>1, <2>3, ToldOrError DEF JudgesWell
<1> QED
  BY <1>5, <1>6, <1>7

(* Documents of Sync *)

LEMMA SyncFields ==
    ASSUME NEW names, NEW document \in SyncDocuments(names)
    PROVE  /\ document.status \in Int \union {NoField}
           /\ document.folder \in {"own", "other", NoField}
           /\ document.collection \in Int \union {NoField}
           /\ document.key \in {NoField, "0", "key"}
           /\ document.collection = NoField <=> document.folder = NoField
           /\ document.item = NoField \/ (/\ document.item.name \in names /\ document.item.id \in Identifiers
                                         /\ document.item.status \in Int /\ document.item.server \in {NoField, "id"})
<1>1. ASSUME NEW item \in Items(names), item # NoField
      PROVE  /\ item.name \in names /\ item.id \in Identifiers
             /\ item.status \in Int /\ item.server \in {NoField, "id"}
  BY <1>1, NumbersKnown DEF Items
<1>2. CASE document \in [status : StatusNumbers.sync \union {NoField}, folder : {"own", "other"},
                        collection : StatusNumbers.sync, key : {NoField, "0", "key"}, item : Items(names)]
  <2>1. document.item \in Items(names)
    BY <1>2
  <2> QED
    BY <1>1, <1>2, <2>1, NumbersKnown
<1>3. CASE document \in [status : StatusNumbers.sync \union {NoField}, folder : {NoField}, collection : {NoField},
                        key : {NoField}, item : {NoField}]
  BY <1>3, NumbersKnown
<1> QED
  BY <1>2, <1>3 DEF SyncDocuments

\* What an item says of the write, if it is its own.
LEMMA SyncJudging ==
    ASSUME NEW command, command.is \in {"change", "calendar"}, NEW names, NEW document \in SyncDocuments(names),
           document \notin {NoBody, Garbled}
    PROVE  /\ SuccessOf(command) = 1 /\ About(command, document)
           /\ \A n : Passes(command, n) <=> n \in {1, NoField}
           /\ Levels(command, document).overall = document.status
           /\ document.folder = "own" => Levels(command, document).folder = document.collection
           /\ document.folder # "own" =>
                 Levels(command, document).folder = NoField /\ Levels(command, document).item = NoField
           /\ document.folder = "own" /\ ItsItem(command, document) =>
                 Levels(command, document).item = document.item.status
           /\ ~ItsItem(command, document) => Levels(command, document).item = NoField
           /\ \A n : Reason(command, n) <=> n \in (3 .. 9) \union {12, 13, 15, 16}
BY NumbersKnown DEF SuccessOf, Passes, Success, Levels, About, Reason

\* A level that is the first to refuse.
LEMMA SyncRefusal ==
    ASSUME NEW command, command.is \in {"change", "calendar"}, NEW names, NEW document \in SyncDocuments(names),
           document \notin {NoBody, Garbled}, NEW n \in (3 .. 9) \union {12, 13, 15, 16},
           \/ document.status = n
           \/ document.status \in {1, NoField} /\ document.folder = "own" /\ document.collection = n
           \/ /\ document.status \in {1, NoField} /\ document.folder = "own" /\ document.collection = 1
              /\ ItsItem(command, document) /\ document.item.status = n
    PROVE  Refusal(command, document)
<1>1. n \notin {1, NoField}
  BY NumbersKnown
<1> QED
  BY <1>1, SyncJudging DEF Refusal

LEMMA ChangeJudged ==
    ASSUME NEW command, command.is = "change", NEW document \in SyncDocuments({"Change", "Add"}),
           document \notin {NoBody, Garbled}
    PROVE  JudgesWell(command, document, ParseChange(document))
<1> DEFINE item == document.item
           overall == IF document.status = NoField THEN Told(1, NoField) ELSE RequireStatus(document.status)
           collection == RequireStatus(document.collection)
<1>1. /\ document.status \in Int \union {NoField} /\ document.folder \in {"own", "other", NoField}
      /\ document.collection \in Int \union {NoField} /\ document.key \in {NoField, "0", "key"}
      /\ item = NoField \/ (item.name \in {"Change", "Add"} /\ item.id \in Identifiers /\ item.status \in Int)
      /\ document.folder = "own" => document.collection # NoField
  BY SyncFields, NumbersKnown
<1>2. SuccessOf(command) = 1
  BY DEF SuccessOf
<1>3. ItsItem(command, document) <=> item # NoField /\ item.id # "other" /\ item.name = "Change"
  BY DEF ItsItem
<1>4. AllSuccess(command, document) <=>
          /\ document.status \in {1, NoField} /\ document.folder = "own" /\ document.collection = 1
          /\ document.key = "key"
          /\ item = NoField \/ (ItsItem(command, document) /\ item.status = 1)
  <2>1. Complete(command, document) <=>
            document.folder = "own" /\ document.key = "key" /\ (item = NoField \/ ItsItem(command, document))
    <3>1. command # [is |-> "calendar", name |-> "Add"]
      OBVIOUS
    <3> QED
      BY <3>1 DEF Complete
  <2>2. /\ About(command, document)
        /\ \A n : Passes(command, n) <=> n \in {1, NoField}
        /\ Levels(command, document).overall = document.status
        /\ document.folder = "own" => Levels(command, document).folder = document.collection
        /\ document.folder = "own" /\ ItsItem(command, document) =>
               Levels(command, document).item = item.status
        /\ ~ItsItem(command, document) => Levels(command, document).item = NoField
    BY SyncJudging
  <2>3. item # NoField => item.status # NoField
    BY <1>1, NumbersKnown
  <2>4. document.folder = "own" => document.collection # NoField
    BY <1>1
  <2> HIDE DEF item
  <2>5. AllSuccess(command, document) <=>
            /\ Complete(command, document)
            /\ Levels(command, document).overall \in {1, NoField}
            /\ Levels(command, document).folder \in {1, NoField}
            /\ Levels(command, document).item \in {1, NoField}
    BY <2>2 DEF AllSuccess
  <2> QED
    BY <1>3, <2>1, <2>2, <2>3, <2>4, <2>5
<1>5. /\ overall.is = "told" <=> document.status \in {1, NoField}
      /\ document.status \notin {1, 3, NoField} => overall = NotUnderstood
      /\ document.status = 3 => overall = Error("key")
      /\ overall.is \in {"told", "error"}
  BY <1>1, NumbersKnown, ToldOrError DEF RequireStatus
<1>6. /\ collection.is = "told" <=> document.collection = 1
      /\ document.collection \notin {1, 3} => collection = NotUnderstood
      /\ document.collection = 3 => collection = Error("key")
      /\ collection.is \in {"told", "error"}
  BY <1>1, NumbersKnown, ToldOrError DEF RequireStatus
<1>7. PICK parsed : parsed = ParseChange(document)
  OBVIOUS
<1>8. parsed = IF overall.is = "error" THEN overall
               ELSE IF document.folder # "own" THEN NotUnderstood
               ELSE IF collection.is = "error" THEN collection
               ELSE IF ~Usable(document.key) THEN NotUnderstood
               ELSE IF item = NoField THEN Told(1, document.key)
               ELSE IF item.name # "Change" \/ item.id = "other" \/ item.status \notin SyncStatuses THEN NotUnderstood
               ELSE Told(item.status, document.key)
  BY <1>7 DEF ParseChange
<1> HIDE DEF overall, collection, item
<1>9. CASE overall.is = "error"
  <2>1. parsed = overall /\ ~AllSuccess(command, document)
    BY <1>4, <1>5, <1>8, <1>9
  <2>2. overall = Error("key") => Refusal(command, document)
    BY <1>5, <1>9, <2>1, SyncRefusal, ToldOrError
  <2> QED
    BY <1>1, <1>5, <1>7, <1>9, <2>1, <2>2, ToldOrError DEF JudgesWell
<1>10. CASE overall.is = "told" /\ document.folder # "own"
  BY <1>4, <1>7, <1>8, <1>10, ToldOrError DEF JudgesWell
<1>11. CASE overall.is = "told" /\ document.folder = "own" /\ collection.is = "error"
  <2>1. parsed = collection /\ ~AllSuccess(command, document)
    BY <1>4, <1>6, <1>8, <1>11
  <2>2. document.collection = 3 => Refusal(command, document)
    BY <1>5, <1>11, SyncRefusal
  <2> QED
    BY <1>6, <1>7, <1>11, <2>1, <2>2, ToldOrError DEF JudgesWell
<1>12. CASE overall.is = "told" /\ document.folder = "own" /\ collection.is = "told"
  <2>1. document.status \in {1, NoField} /\ document.collection = 1
    BY <1>5, <1>6, <1>12
  <2>2. Usable(document.key) <=> document.key = "key"
    BY <1>1, NumbersKnown DEF Usable
  <2>3. CASE ~Usable(document.key)
    BY <1>4, <1>7, <1>8, <1>12, <2>2, <2>3, ToldOrError DEF JudgesWell
  <2>4. CASE Usable(document.key) /\ item = NoField
    BY <1>2, <1>4, <1>7, <1>8, <1>12, <2>1, <2>2, <2>4, ToldOrError DEF JudgesWell
  <2>5. CASE /\ Usable(document.key) /\ item # NoField
             /\ item.name # "Change" \/ item.id = "other" \/ item.status \notin SyncStatuses
    <3>1. parsed = NotUnderstood
      BY <1>8, <1>12, <2>5
    <3>2. ~AllSuccess(command, document)
      BY <1>3, <1>4, <2>5 DEF SyncStatuses
    <3> QED
      BY <1>7, <3>1, <3>2, ToldOrError DEF JudgesWell
  <2>6. CASE /\ Usable(document.key) /\ item # NoField
             /\ item.name = "Change" /\ item.id # "other" /\ item.status \in SyncStatuses
    <3>1. parsed = Told(item.status, document.key)
      BY <1>8, <1>12, <2>6
    <3>2. item.status # 1 => Refusal(command, document)
      <4>1. item.status # 1 => item.status \in (3 .. 9) \union {12, 13, 15, 16}
        BY <2>6 DEF SyncStatuses
      <4> QED
        BY <1>3, <1>12, <2>1, <2>6, <4>1, SyncRefusal DEF item
    <3> QED
      BY <1>2, <1>3, <1>4, <1>7, <1>12, <2>1, <2>2, <2>6, <3>1, <3>2, ToldOrError DEF JudgesWell
  <2> QED
    BY <2>3, <2>4, <2>5, <2>6
<1> QED
  BY <1>5, <1>6, <1>9, <1>10, <1>11, <1>12

LEMMA CalendarJudged ==
    ASSUME NEW name \in {"Add", "Change", "Delete"}, NEW command, command = [is |-> "calendar", name |-> name],
           NEW document \in SyncDocuments({"Add", "Change", "Delete"}), document \notin {NoBody, Garbled}
    PROVE  JudgesWell(command, document, ParseCalendar(document, name))
<1> DEFINE item == document.item
           folder == document.collection
<1>0. command.is = "calendar" /\ command.name = name
  OBVIOUS
<1>1. /\ document.status \in Int \union {NoField} /\ document.folder \in {"own", "other", NoField}
      /\ folder \in Int \union {NoField} /\ document.key \in {NoField, "0", "key"}
      /\ item = NoField \/ (item.id \in Identifiers /\ item.status \in Int /\ item.server \in {NoField, "id"})
      /\ folder = NoField <=> document.folder = NoField
  BY SyncFields
<1>2. SuccessOf(command) = 1
  BY <1>0 DEF SuccessOf
<1>3. ItsItem(command, document) <=> item # NoField /\ item.id # "other" /\ item.name = name
  BY <1>0 DEF ItsItem
<1>4. AllSuccess(command, document) <=>
          /\ document.status \in {1, NoField} /\ document.folder = "own" /\ folder = 1
          /\ document.key = "key"
          /\ item = NoField \/ (ItsItem(command, document) /\ item.status = 1)
          /\ name = "Add" => item # NoField /\ item.id = "own" /\ item.server = "id"
  <2>1. Complete(command, document) <=>
            /\ document.folder = "own" /\ document.key = "key" /\ (item = NoField \/ ItsItem(command, document))
            /\ name = "Add" => item # NoField /\ item.id = "own" /\ item.server = "id"
    <3>1. command = [is |-> "calendar", name |-> "Add"] <=> name = "Add"
      OBVIOUS
    <3> QED
      BY <1>0, <3>1 DEF Complete
  <2> QED
    BY <1>0, <1>1, <1>3, <2>1, SyncJudging, NumbersKnown DEF AllSuccess
<1>5. PICK root \in Int : root = IF document.status = NoField THEN 1 ELSE document.status
  BY <1>1
<1>6. PICK last \in Int : last = IF item = NoField THEN 1 ELSE item.status
  BY <1>1
<1>7. PICK status : status = FirstFailure(root, folder, last)
  OBVIOUS
<1>8. PICK parsed : parsed = ParseCalendar(document, name)
  OBVIOUS
<1>9. parsed = IF root \notin SyncStatuses THEN NotUnderstood
               ELSE IF folder = NoField THEN IF root # 1 THEN Told(root, NoField) ELSE NotUnderstood
               ELSE IF \/ document.folder # "own" \/ folder \notin SyncStatuses
                       \/ root = 1 /\ folder = 1 /\ ~Usable(document.key)
                       \/ item # NoField /\ ~ItemUnderstood(item, name)
                       \/ status = 1 /\ name = "Add" /\ item = NoField
                    THEN NotUnderstood
               ELSE Told(status, document.key)
  BY <1>5, <1>6, <1>7, <1>8 DEF ParseCalendar
<1>10. Usable(document.key) <=> document.key = "key"
  BY <1>1, NumbersKnown DEF Usable
<1>11. item # NoField =>
          (ItemUnderstood(item, name) <=>
              /\ ItsItem(command, document) /\ item.status \in SyncStatuses
              /\ name = "Add" => item.id # NoField /\ (item.status = 1 => item.server # NoField))
  BY <1>3 DEF ItemUnderstood
<1>12. \A n \in SyncStatuses : n # 1 => n \in (3 .. 9) \union {12, 13, 15, 16}
  BY DEF SyncStatuses
<1>13. 1 \in SyncStatuses
  BY DEF SyncStatuses
<1>14. root = 1 <=> document.status \in {1, NoField}
  BY <1>5, NumbersKnown
<1>15. root # 1 /\ root \in SyncStatuses => Refusal(command, document)
  BY <1>0, <1>5, <1>12, SyncRefusal
<1> HIDE DEF item, folder
<1>16. CASE parsed = NotUnderstood
  <2>1. ~AllSuccess(command, document)
    <3>1. ASSUME AllSuccess(command, document)
          PROVE  FALSE
      <4>1. /\ root = 1 /\ document.folder = "own" /\ folder = 1 /\ Usable(document.key)
            /\ item = NoField \/ (ItsItem(command, document) /\ item.status = 1)
            /\ name = "Add" => item # NoField /\ item.id = "own" /\ item.server = "id"
        BY <1>4, <1>10, <1>14, <3>1
      <4>2. item # NoField => ItemUnderstood(item, name)
        BY <1>11, <1>13, <4>1, NumbersKnown
      <4>3. parsed = Told(status, document.key)
        BY <1>9, <1>13, <4>1, <4>2, NumbersKnown
      <4> QED
        BY <1>16, <4>3, ToldOrError
    <3> QED
      BY <3>1
  <2> QED
    BY <1>8, <1>16, <2>1, ToldOrError DEF JudgesWell
<1>17. CASE parsed # NotUnderstood /\ folder = NoField
  <2>1. parsed = Told(root, NoField) /\ root # 1 /\ root \in SyncStatuses
    BY <1>9, <1>17
  <2>2. ~AllSuccess(command, document)
    BY <1>4, <1>17, NumbersKnown
  <2> QED
    BY <1>2, <1>8, <1>15, <2>1, <2>2, ToldOrError DEF JudgesWell
<1>18. CASE parsed # NotUnderstood /\ folder # NoField
  <2>1. /\ root \in SyncStatuses /\ document.folder = "own" /\ folder \in SyncStatuses
        /\ root = 1 /\ folder = 1 => Usable(document.key)
        /\ item # NoField => ItemUnderstood(item, name)
        /\ ~(status = 1 /\ name = "Add" /\ item = NoField)
        /\ parsed = Told(status, document.key)
    BY <1>9, <1>18
  <2>2. status = IF root # 1 THEN root ELSE IF folder # 1 THEN folder ELSE last
    BY <1>7 DEF FirstFailure
  <2>3. status = 1 <=> root = 1 /\ folder = 1 /\ last = 1
    BY <2>2
  <2>4. status = 1 => AllSuccess(command, document)
    <3>1. SUFFICES ASSUME status = 1
                   PROVE  AllSuccess(command, document)
      OBVIOUS
    <3>2. root = 1 /\ folder = 1 /\ last = 1
      BY <2>3, <3>1
    <3>3. item = NoField \/ (ItsItem(command, document) /\ item.status = 1)
      BY <1>6, <1>11, <2>1, <3>2
    <3>4. name = "Add" => item # NoField /\ item.id = "own" /\ item.server = "id"
      <4>1. SUFFICES ASSUME name = "Add"
                     PROVE  item # NoField /\ item.id = "own" /\ item.server = "id"
        OBVIOUS
      <4>2. item # NoField /\ ItemUnderstood(item, name)
        BY <2>1, <3>1, <4>1
      <4>3. item.id # NoField /\ item.server # NoField /\ item.id # "other"
        BY <1>3, <1>11, <3>3, <4>1, <4>2
      <4> QED
        BY <1>1, <4>2, <4>3 DEF Identifiers, item
    <3> QED
      BY <1>4, <1>10, <1>14, <2>1, <3>2, <3>3, <3>4
  <2>5. AllSuccess(command, document) => status = 1
    BY <1>4, <1>6, <1>14, <2>3
  <2>6. status # 1 => Refusal(command, document)
    <3>1. CASE root # 1
      BY <1>15, <2>1, <3>1
    <3>2. CASE root = 1 /\ folder # 1
      <4>1. folder \in (3 .. 9) \union {12, 13, 15, 16}
        BY <1>12, <2>1, <3>2
      <4> QED
        BY <1>0, <1>14, <2>1, <3>2, <4>1, SyncRefusal DEF folder
    <3>3. CASE root = 1 /\ folder = 1 /\ last # 1
      <4>1. item # NoField /\ ItsItem(command, document) /\ item.status \in (3 .. 9) \union {12, 13, 15, 16}
        BY <1>6, <1>11, <1>12, <2>1, <3>3
      <4> QED
        BY <1>0, <1>14, <2>1, <3>3, <4>1, SyncRefusal DEF item, folder
    <3> QED
      BY <2>3, <3>1, <3>2, <3>3
  <2> QED
    BY <1>0, <1>2, <1>8, <2>1, <2>4, <2>5, <2>6, ToldOrError DEF JudgesWell
<1> QED
  BY <1>16, <1>17, <1>18

\* Every parser judges well.
LEMMA Judged ==
    ASSUME NEW command \in Writes, NEW document \in Documents(command), document \notin {NoBody, Garbled}
    PROVE  JudgesWell(command, document, Parse(command, document))
<1>1. \/ command.is = "compose" /\ command.name = "SendMail"
      \/ command.is = "change"
      \/ command.is = "move"
      \/ command.is = "respond"
      \/ command.is = "replies"
      \/ /\ command.is = "calendar" /\ command.name \in {"Add", "Change", "Delete"}
         /\ command = [is |-> "calendar", name |-> command.name]
  BY DEF Writes
<1>2. CASE command.is = "compose"
  <2>1. document \in [name : {"SendMail", "SmartReply"}, status : StatusNumbers.compose]
    BY <1>2 DEF Documents
  <2>2. Parse(command, document) = ParseCompose(document, command.name)
    BY <1>2 DEF Parse
  <2> QED
    BY <1>2, <2>1, <2>2, ComposeJudged
<1>3. CASE command.is = "change"
  <2>1. document \in SyncDocuments({"Change", "Add"})
    BY <1>3 DEF Documents
  <2>2. Parse(command, document) = ParseChange(document)
    BY <1>3 DEF Parse
  <2> QED
    BY <1>3, <2>1, <2>2, ChangeJudged
<1>4. CASE command.is = "move"
  <2>1. document \in [overall : {NoField} \union StatusNumbers.move, id : Identifiers,
                      status : StatusNumbers.move, server : {NoField, "id"}]
    BY <1>4 DEF Documents
  <2>2. Parse(command, document) = ParseMove(document)
    BY <1>4 DEF Parse
  <2> QED
    BY <1>4, <2>1, <2>2, MoveJudged
<1>5. CASE command.is = "respond"
  <2>1. document \in [status : StatusNumbers.respond, id : Identifiers]
    BY <1>5 DEF Documents
  <2>2. Parse(command, document) = ParseResponse(document)
    BY <1>5 DEF Parse
  <2> QED
    BY <1>5, <2>1, <2>2, RespondJudged
<1>6. CASE command.is = "replies"
  <2>1. document \in [outer : StatusNumbers.replies, inner : {NoField} \union StatusNumbers.replies]
    BY <1>6 DEF Documents
  <2>2. Parse(command, document) = ParseReplies(document)
    BY <1>6 DEF Parse
  <2> QED
    BY <1>6, <2>1, <2>2, RepliesJudged
<1>7. CASE command.is = "calendar" /\ command = [is |-> "calendar", name |-> command.name]
           /\ command.name \in {"Add", "Change", "Delete"}
  <2>1. document \in SyncDocuments({"Add", "Change", "Delete"})
    BY <1>7 DEF Documents
  <2>2. Parse(command, document) = ParseCalendar(document, command.name)
    BY <1>7 DEF Parse
  <2>3. PICK name \in {"Add", "Change", "Delete"} : name = command.name
    BY <1>7
  <2>4. command = [is |-> "calendar", name |-> name]
    BY <1>7, <2>3
  <2> QED
    BY <2>1, <2>2, <2>3, <2>4, CalendarJudged
<1> QED
  BY <1>1, <1>2, <1>3, <1>4, <1>5, <1>6, <1>7

\* What the row says of the result of the client.
LEMMA RowOfResult ==
    ASSUME NEW command, NEW reply, NEW result, result = Client(command, reply)
    PROVE  /\ Verdict(command, reply) = "succeeded" <=> Confirmed(command, result)
           /\ Verdict(command, reply) = "unknown" <=> result = Error("unknown")
           /\ Verdict(command, reply) \in {"succeeded", "again", "purged", "unknown", "failed"}
<1>1. result = Error("unknown") => ~Confirmed(command, result) /\ ~Repeated(command, result) /\ result # Error("wipe")
  BY DEF Confirmed, Repeated, Error
<1>2. Verdict(command, reply) =
          CASE Confirmed(command, result) -> "succeeded"
            [] Repeated(command, result) -> "again"
            [] result = Error("wipe") -> "purged"
            [] result = Error("unknown") -> "unknown"
            [] OTHER -> "failed"
  BY DEF Verdict
<1>3. Confirmed(command, result) => ~Repeated(command, result) /\ result # Error("wipe") /\ result # Error("unknown")
  BY DEF Confirmed, Repeated, Error
<1>4. Repeated(command, result) => result # Error("wipe") /\ result # Error("unknown")
  BY DEF Repeated, Error
<1>5. Error("wipe") # Error("unknown")
  BY DEF Error
<1> QED
  BY <1>1, <1>2, <1>3, <1>4, <1>5

\* What the client makes of the status of an answer, and of its document.
LEMMA ClientOfStatus ==
    ASSUME NEW command, NEW reply
    PROVE  /\ reply.http \in {401, 403, 429, 449} =>
                 \E kind \in {"authentication", "access", "policy", "throttled"} :
                     Client(command, reply) = Error(kind)
           /\ reply.http \notin {200, 201, 204, 401, 403, 429, 449} => Client(command, reply) = Error("unknown")
           /\ command.is = "compose" /\ reply.http \in {201, 204} => Client(command, reply) = Error("unknown")
<1>1. PICK http : http = MutationError(Normalize(reply.http))
  OBVIOUS
<1>2. http.is = "error" => Client(command, reply) = http
  BY <1>1 DEF Client
<1>3. reply.http \in {401, 403, 429, 449} =>
          \E kind \in {"authentication", "access", "policy", "throttled"} : http = Error(kind)
  BY <1>1 DEF Normalize, MutationError, Error
<1>4. reply.http \notin {200, 201, 204, 401, 403, 429, 449} => http = Error("unknown")
  BY <1>1 DEF Normalize, MutationError, Error, NotUnderstood
<1>5. \A kind : Error(kind).is = "error"
  BY ToldOrError
<1>6. ASSUME command.is = "compose", reply.http \in {201, 204}
      PROVE  Client(command, reply) = Error("unknown")
  <2>1. http.is = "told"
    BY <1>1, <1>6 DEF Normalize, MutationError, Told
  <2> QED
    BY <1>1, <1>6, <2>1 DEF Client
<1> QED
  BY <1>2, <1>3, <1>4, <1>5, <1>6

LEMMA ClientOfDocument ==
    ASSUME NEW command, NEW reply, NEW parsed, parsed = Parse(command, reply.document),
           reply.http = 200 \/ (reply.http \in {201, 204} /\ command.is # "compose"),
           parsed.is = "told" \/ (parsed.is = "error" /\ parsed.kind \in {"protocol", "key", "wipe"})
    PROVE  /\ parsed.is = "error" /\ parsed.kind = "protocol" => Client(command, reply) = Error("unknown")
           /\ parsed.is = "error" /\ parsed.kind # "protocol" => Client(command, reply) = parsed
           /\ parsed.is = "told" =>
                  Client(command, reply) =
                      IF command.is = "calendar" /\ parsed.status = 3 THEN Error("key")
                      ELSE IF command.is = "replies" /\ parsed.status \in {110, 111} THEN Error("unknown")
                      ELSE parsed
<1>1. PICK http : http = MutationError(Normalize(reply.http))
  OBVIOUS
<1>2. http.is = "told"
  BY <1>1 DEF Normalize, MutationError, Told
<1>3. PICK judged : judged = MutationError(parsed)
  OBVIOUS
<1>4. /\ parsed.is = "error" /\ parsed.kind = "protocol" => judged = Error("unknown")
      /\ parsed.is = "error" /\ parsed.kind # "protocol" => judged = parsed
      /\ parsed.is = "told" => judged = parsed
  BY <1>3 DEF MutationError
<1>5. Client(command, reply) =
          IF judged.is = "error" THEN judged
          ELSE IF command.is = "calendar" /\ judged.status = 3 THEN Error("key")
          ELSE IF command.is = "replies" /\ judged.status \in {110, 111} THEN Error("unknown")
          ELSE judged
  BY <1>1, <1>2, <1>3 DEF Client
<1> QED
  BY <1>4, <1>5, ToldOrError

\* What the row says of an answer that is true is true.
LEMMA VerdictIsTrue ==
    ASSUME NEW command \in Writes, NEW executed \in BOOLEAN, NEW http, NEW document \in Documents(command),
           http = 200 \/ document = NoBody, Truthful(command, executed, http, document),
           NEW reply, reply.http = http, reply.document = document,
           NEW verdict, verdict = Verdict(command, reply)
    PROVE  /\ verdict = "succeeded" => executed
           /\ verdict \in {"failed", "again", "purged"} => ~executed
           /\ http = 200 /\ AllSuccess(command, document) => verdict # "unknown"
           /\ http \in {401, 403, 429, 449} => verdict # "unknown"
<1>1. PICK result : result = Client(command, reply)
  OBVIOUS
<1>2. /\ verdict = "succeeded" <=> Confirmed(command, result)
      /\ verdict = "unknown" <=> result = Error("unknown")
      /\ verdict \in {"succeeded", "again", "purged", "unknown", "failed"}
  BY <1>1, RowOfResult
<1>3. PICK parsed : parsed = Parse(command, reply.document)
  OBVIOUS
<1>4. AllSuccess(command, document) => document \notin {NoBody, Garbled}
  BY DEF AllSuccess
<1>5. CASE http \in {401, 403, 429, 449}
  <2>1. PICK kind \in {"authentication", "access", "policy", "throttled"} : result = Error(kind)
    BY <1>1, <1>5, ClientOfStatus
  <2>2. ~Confirmed(command, result) /\ result # Error("unknown")
    BY <2>1 DEF Confirmed, Error
  <2>3. ~executed
    BY <1>5 DEF Truthful
  <2> QED
    BY <1>2, <1>5, <2>2, <2>3
<1>6. CASE http \notin {200, 201, 204, 401, 403, 429, 449} \/ (http \in {201, 204} /\ command.is = "compose")
  <2>1. result = Error("unknown")
    BY <1>1, <1>6, ClientOfStatus
  <2> QED
    BY <1>2, <1>6, <2>1
<1>7. CASE /\ http = 200 \/ (http \in {201, 204} /\ command.is # "compose")
           /\ document = Garbled \/ (document = NoBody /\ command.is # "compose")
  <2>1. parsed = NotUnderstood
    BY <1>3, <1>7 DEF Parse
  <2>2. parsed.is = "error" /\ parsed.kind = "protocol"
    BY <2>1, ToldOrError
  <2>3. result = Error("unknown")
    BY <1>1, <1>3, <1>7, <2>2, ClientOfDocument
  <2> QED
    BY <1>2, <1>4, <1>7, <2>3
<1>8. CASE http = 200 /\ document = NoBody /\ command.is = "compose" /\ document # Garbled
  <2>1. parsed = Told(1, NoField)
    BY <1>3, <1>8 DEF Parse, ParseCompose
  <2>2. parsed.is = "told" /\ parsed.status = 1
    BY <2>1, ToldOrError
  <2>3. result = parsed
    BY <1>1, <1>3, <1>8, <2>2, ClientOfDocument
  <2>4. Confirmed(command, result)
    BY <1>8, <2>2, <2>3 DEF Confirmed, SuccessOf
  <2>5. executed
    BY <1>8 DEF Truthful
  <2> QED
    BY <1>2, <2>4, <2>5, <1>8
<1>9. CASE http = 200 /\ document \notin {NoBody, Garbled}
  <2>1. JudgesWell(command, document, parsed)
    BY <1>3, <1>9, Judged
  <2>2. /\ parsed.is = "told" \/ (parsed.is = "error" /\ parsed.kind \in {"protocol", "key", "wipe"})
        /\ parsed.is = "told" /\ parsed.status = SuccessOf(command) => AllSuccess(command, document)
        /\ AllSuccess(command, document) => parsed.is = "told" /\ parsed.status = SuccessOf(command)
        /\ /\ parsed.is = "told" /\ parsed.status # SuccessOf(command)
           /\ ~(command.is = "replies" /\ parsed.status \in {110, 111})
           => Refusal(command, document)
        /\ parsed.is = "error" /\ parsed.kind # "protocol" => Refusal(command, document)
    BY <2>1 DEF JudgesWell
  <2>3. /\ AllSuccess(command, document) => executed
        /\ Refusal(command, document) => ~executed
    BY <1>9 DEF Truthful
  <2>4. /\ parsed.is = "error" /\ parsed.kind = "protocol" => result = Error("unknown")
        /\ parsed.is = "error" /\ parsed.kind # "protocol" => result = parsed
        /\ parsed.is = "told" =>
               result = IF command.is = "calendar" /\ parsed.status = 3 THEN Error("key")
                        ELSE IF command.is = "replies" /\ parsed.status \in {110, 111} THEN Error("unknown")
                        ELSE parsed
    BY <1>1, <1>3, <1>9, <2>2, ClientOfDocument
  <2>5. Confirmed(command, result) <=> result.is = "told" /\ result.status = SuccessOf(command)
    BY DEF Confirmed
  <2>6. SuccessOf(command) \in {1, 3} /\ (SuccessOf(command) = 3 => command.is = "move")
    BY DEF SuccessOf
  <2>7. CASE parsed.is = "error" /\ parsed.kind = "protocol"
    BY <1>2, <1>9, <2>2, <2>4, <2>5, <2>7, ToldOrError
  <2>8. CASE parsed.is = "error" /\ parsed.kind # "protocol"
    <3>1. ~executed /\ ~AllSuccess(command, document)
      BY <2>2, <2>3, <2>8
    <3> QED
      BY <1>2, <1>9, <2>4, <2>5, <2>8, <3>1
  <2>9. CASE parsed.is = "told" /\ parsed.status = SuccessOf(command)
    <3>1. executed
      BY <2>2, <2>3, <2>9
    <3>2. result = parsed
      BY <2>4, <2>6, <2>9
    <3> QED
      BY <1>2, <1>9, <2>5, <2>9, <3>1, <3>2
  <2>10. CASE parsed.is = "told" /\ parsed.status # SuccessOf(command)
    <3>1. ~AllSuccess(command, document)
      BY <2>2, <2>10
    <3>2. ~Confirmed(command, result)
      BY <2>4, <2>5, <2>10, ToldOrError
    <3>3. CASE command.is = "replies" /\ parsed.status \in {110, 111}
      <4>1. result = Error("unknown")
        BY <2>4, <2>10, <3>3
      <4> QED
        BY <1>2, <1>9, <3>1, <3>2, <4>1
    <3>4. CASE ~(command.is = "replies" /\ parsed.status \in {110, 111})
      <4>1. ~executed
        BY <2>2, <2>3, <2>10, <3>4
      <4> QED
        BY <1>2, <1>9, <3>1, <3>2, <4>1
    <3> QED
      BY <3>3, <3>4
  <2> QED
    BY <2>2, <2>7, <2>8, <2>9, <2>10
<1> QED
  BY <1>5, <1>6, <1>7, <1>8, <1>9

(***************************************************************************)
(* Automatic replies                                                       *)
(***************************************************************************)

\* Who is to be answered, and with what.
Asked(input, a) ==
    /\ a = "known" => input.audience # "none"
    /\ a = "unknown" => input.audience = "all"

TextFor(input, a) == IF a = "internal" THEN input.internal ELSE input.external

\* What a request says, audience by audience.
LEMMA RequestSays ==
    ASSUME NEW input \in ReplyQuestions, NEW requested, requested = Requested(input, input.now),
           requested # NotSent
    PROVE  /\ requested.state = input.state /\ requested.start = input.start /\ requested.end = input.end
           /\ input.state = "scheduled" => Ordered(input)
           /\ DOMAIN requested.messages = IF input.state = "disabled" THEN {} ELSE Audiences
           /\ \A a \in DOMAIN requested.messages :
                  /\ requested.messages[a].enabled <=> Asked(input, a)
                  /\ requested.messages[a].enabled \in BOOLEAN
                  /\ requested.messages[a].text = TextFor(input, a)
                  /\ Asked(input, a) => TextFor(input, a) # Unstated
<1>1. DatesOfState(input, input.now) /\ MessagesOfState(input)
  BY DEF Requested
<1>2. PICK messages : messages =
          IF input.state = "disabled" THEN <<>>
          ELSE [internal |-> [enabled |-> TRUE, text |-> input.internal],
                known |-> [enabled |-> input.external # Unstated, text |-> input.external],
                unknown |-> [enabled |-> input.audience = "all", text |-> input.external]]
  OBVIOUS
<1>3. requested = [is |-> "settings", state |-> input.state, start |-> input.start, end |-> input.end,
                   messages |-> messages]
  BY <1>1, <1>2 DEF Requested
<1>4. /\ requested.state = input.state /\ requested.start = input.start /\ requested.end = input.end
      /\ requested.messages = messages
  BY <1>3
<1>5. input.state = "scheduled" => Ordered(input)
  BY <1>1 DEF DatesOfState
<1>6. CASE input.state = "disabled"
  <2>1. DOMAIN messages = {}
    BY <1>2, <1>6
  <2> QED
    BY <1>4, <1>5, <1>6, <2>1
<1>7. CASE input.state # "disabled"
  <2>1. DOMAIN messages = Audiences
    BY <1>2, <1>7 DEF Audiences
  <2>2. /\ input.internal # Unstated
        /\ input.audience = "none" => input.external = Unstated
        /\ input.audience # "none" => input.external # Unstated
        /\ input.audience \in {"none", "known", "all"}
    BY <1>1, <1>7 DEF MessagesOfState, ValidMessage, ReplyQuestions
  <2>3. PICK answered \in BOOLEAN : answered <=> input.external # Unstated
    OBVIOUS
  <2>4. PICK all \in BOOLEAN : all <=> input.audience = "all"
    OBVIOUS
  <2>5. /\ messages["internal"] = [enabled |-> TRUE, text |-> input.internal]
        /\ messages["known"] = [enabled |-> input.external # Unstated, text |-> input.external]
        /\ messages["unknown"] = [enabled |-> input.audience = "all", text |-> input.external]
    BY <1>2, <1>7
  <2>7. /\ messages["internal"].enabled = TRUE /\ messages["internal"].text = input.internal
        /\ messages["known"].enabled = answered /\ messages["known"].text = input.external
        /\ messages["unknown"].enabled = all /\ messages["unknown"].text = input.external
    BY <2>3, <2>4, <2>5
  <2>6. ASSUME NEW a \in Audiences
        PROVE  /\ messages[a].enabled <=> Asked(input, a)
               /\ messages[a].enabled \in BOOLEAN
               /\ messages[a].text = TextFor(input, a)
               /\ Asked(input, a) => TextFor(input, a) # Unstated
    <3>1. CASE a = "internal"
      BY <2>2, <2>3, <2>4, <2>7, <3>1 DEF Asked, TextFor
    <3>2. CASE a = "known"
      BY <2>2, <2>3, <2>4, <2>7, <3>2 DEF Asked, TextFor
    <3>3. CASE a = "unknown"
      BY <2>2, <2>3, <2>4, <2>7, <3>3 DEF Asked, TextFor
    <3> QED
      BY <3>1, <3>2, <3>3 DEF Audiences
  <2> QED
    BY <1>4, <1>5, <1>7, <2>1, <2>6
<1> QED
  BY <1>6, <1>7

\* What the user wanted, in these terms.
LEMMA WantedSays ==
    ASSUME NEW input \in ReplyQuestions, NEW a \in Audiences, NEW t
    PROVE  Wanted(input, a, t) =
               IF \/ input.state = "disabled"
                  \/ input.state = "scheduled" /\ t \notin input.start .. input.end - 1
                  \/ ~Asked(input, a)
               THEN "nothing" ELSE TextFor(input, a).words
<1>1. CASE a = "internal"
  BY <1>1 DEF Wanted, Asked, TextFor
<1>2. CASE a = "known"
  BY <1>2 DEF Wanted, Asked, TextFor
<1>3. CASE a = "unknown"
  BY <1>3 DEF Wanted, Asked, TextFor
<1> QED
  BY <1>1, <1>2, <1>3 DEF Audiences

LEMMA RepliesJudgedTruly ==
    ASSUME NEW input \in ReplyQuestions, NEW requested, requested = Requested(input, input.now),
           requested # NotSent, NEW observed, AreSettings(observed)
    PROVE  /\ ReadBack(requested, observed) = "succeeded" =>
                  \A a \in Audiences, t \in Moments : Replied(observed, a, t) = Wanted(input, a, t)
           /\ SameButForm(requested, observed) => ReadBack(requested, observed) = "succeeded"
<1>1. /\ requested.state = input.state /\ requested.start = input.start /\ requested.end = input.end
      /\ input.state = "scheduled" => Ordered(input)
      /\ DOMAIN requested.messages = IF input.state = "disabled" THEN {} ELSE Audiences
      /\ \A a \in DOMAIN requested.messages :
             /\ requested.messages[a].enabled <=> Asked(input, a)
             /\ requested.messages[a].enabled \in BOOLEAN
             /\ requested.messages[a].text = TextFor(input, a)
             /\ Asked(input, a) => TextFor(input, a) # Unstated
  BY RequestSays
<1>2. \A a \in DOMAIN observed.messages : observed.messages[a].enabled \in BOOLEAN
  BY DEF AreSettings
<1>3. ReadBack(requested, observed) = "succeeded" <=> Readable(observed) /\ Matching(requested, observed)
  BY DEF ReadBack
<1>4. ASSUME Matching(requested, observed), NEW a \in Audiences, NEW t \in Moments
      PROVE  Replied(observed, a, t) = Wanted(input, a, t)
  <2>1. /\ observed.state = input.state
        /\ input.state = "scheduled" => observed.start = input.start /\ observed.end = input.end
    BY <1>1, <1>4 DEF Matching, SameTimes
  <2>2. CASE input.state = "disabled"
    BY <1>4, <2>1, <2>2, WantedSays DEF Replied
  <2>3. CASE input.state # "disabled"
    <3>1. a \in DOMAIN requested.messages
      BY <1>1, <1>4, <2>3
    <3>2. /\ a \in DOMAIN observed.messages
          /\ requested.messages[a].enabled = observed.messages[a].enabled
          /\ requested.messages[a].enabled =>
                 observed.messages[a].text # Unstated
                 /\ requested.messages[a].text.words = observed.messages[a].text.words
      BY <1>4, <3>1 DEF Matching, Words
    <3>3. /\ observed.messages[a].enabled <=> Asked(input, a)
          /\ Asked(input, a) => observed.messages[a].text.words = TextFor(input, a).words
      BY <1>1, <1>2, <3>1, <3>2
    <3>4. Replied(observed, a, t) =
              IF \/ input.state = "scheduled" /\ t \notin observed.start .. observed.end - 1
                 \/ ~Asked(input, a)
              THEN "nothing" ELSE observed.messages[a].text.words
      BY <2>1, <2>3, <3>2, <3>3 DEF Replied
    <3>5. Replied(observed, a, t) =
              IF \/ input.state = "scheduled" /\ t \notin input.start .. input.end - 1
                 \/ ~Asked(input, a)
              THEN "nothing" ELSE TextFor(input, a).words
      BY <2>1, <3>3, <3>4
    <3> QED
      BY <1>4, <2>3, <3>5, WantedSays
  <2> QED
    BY <2>2, <2>3
<1>5. ASSUME SameButForm(requested, observed)
      PROVE  Readable(observed) /\ Matching(requested, observed)
  <2>1. /\ requested.state = observed.state /\ requested.start = observed.start /\ requested.end = observed.end
        /\ DOMAIN requested.messages = DOMAIN observed.messages
        /\ \A a \in DOMAIN requested.messages :
               /\ requested.messages[a].enabled = observed.messages[a].enabled
               /\ requested.messages[a].enabled /\ requested.messages[a].text # Unstated =>
                      /\ observed.messages[a].text # Unstated
                      /\ requested.messages[a].text.words = observed.messages[a].text.words
    BY <1>5 DEF SameButForm
  <2>2. Readable(observed)
    BY <1>1, <2>1 DEF Readable, Ordered
  <2>3. SameTimes(requested, observed)
    BY <2>1 DEF SameTimes
  <2>4. ASSUME NEW a \in DOMAIN requested.messages
        PROVE  /\ a \in DOMAIN observed.messages
               /\ requested.messages[a].enabled = observed.messages[a].enabled
               /\ requested.messages[a].enabled =>
                      /\ observed.messages[a].text # Unstated
                      /\ Words(requested.messages[a].text) = Words(observed.messages[a].text)
    BY <1>1, <2>1, <2>4 DEF Words
  <2> QED
    BY <2>2, <2>3, <2>4 DEF Matching
<1> QED
  BY <1>3, <1>4, <1>5

(***************************************************************************)
(* Both                                                                    *)
(***************************************************************************)

\* A question about automatic replies is one that was chosen, and what is asked
\* of Exchange is what the code makes of it.
RepliesAreAnswered ==
    question.is = "replies" =>
        question \in ReplyQuestions /\ answer \in {Nothing, Requested(question, question.now)}

AnswersInv ==
    /\ question.is = "write" => question \in WriteQuestions
    /\ RepliesAreAnswered
    /\ WritesAreJudgedTruly

LEMMA WriteIsJudged ==
    ASSUME AnswersInv, AskWrite
    PROVE  AnswersInv'
<1>1. question \in WriteQuestions
  BY DEF AskWrite, AnswersInv
<1>2. PICK command \in Writes : command = question.command
  BY <1>1 DEF WriteQuestions
<1>3. PICK executed \in BOOLEAN : executed = question.executed
  BY <1>1 DEF WriteQuestions
<1>4. PICK http \in Codes, document \in Documents(command) :
          /\ http = 200 \/ document = NoBody
          /\ Truthful(command, executed, http, document)
          /\ question' = [is |-> "acknowledged", command |-> command, executed |-> executed,
                          http |-> http, document |-> document]
          /\ answer' = [is |-> Verdict(command, [http |-> http, document |-> document])]
  BY <1>2, <1>3 DEF AskWrite
<1>5. PICK reply : reply = [http |-> http, document |-> document]
  OBVIOUS
<1>6. PICK verdict : verdict = Verdict(command, reply)
  OBVIOUS
<1>7. reply.http = http /\ reply.document = document
  BY <1>5
<1>8. /\ verdict = "succeeded" => executed
      /\ verdict \in {"failed", "again", "purged"} => ~executed
      /\ http = 200 /\ AllSuccess(command, document) => verdict # "unknown"
      /\ http \in {401, 403, 429, 449} => verdict # "unknown"
  BY <1>4, <1>6, <1>7, VerdictIsTrue
<1>9. /\ question'.is = "acknowledged" /\ question'.executed = executed /\ question'.http = http
      /\ question'.command = command /\ question'.document = document /\ answer'.is = verdict
  BY <1>4, <1>5, <1>6
<1>10. VerdictsAreTrue'
  BY <1>8, <1>9 DEF VerdictsAreTrue
<1> QED
  BY <1>9, <1>10 DEF AnswersInv, RepliesAreAnswered, WritesAreJudgedTruly, RepliesAreAsAsked

LEMMA RepliesAreRequested ==
    ASSUME AnswersInv, AskReplies
    PROVE  AnswersInv'
BY DEF AnswersInv, AskReplies, RepliesAreAnswered, WritesAreJudgedTruly, VerdictsAreTrue, RepliesAreAsAsked

LEMMA RepliesAreReadBack ==
    ASSUME AnswersInv, AskReadBack
    PROVE  AnswersInv'
<1>1. /\ question \in ReplyQuestions /\ answer = Requested(question, question.now) /\ answer # NotSent
  BY DEF AnswersInv, AskReadBack, RepliesAreAnswered
<1>2. PICK observed \in Observations(answer) :
          /\ AreSettings(observed)
          /\ question' = [is |-> "read back", input |-> question, requested |-> answer, observed |-> observed]
          /\ answer' = [is |-> ReadBack(answer, observed)]
  BY DEF AskReadBack
<1>3. /\ ReadBack(answer, observed) = "succeeded" =>
             \A a \in Audiences, t \in Moments : Replied(observed, a, t) = Wanted(question, a, t)
      /\ SameButForm(answer, observed) => ReadBack(answer, observed) = "succeeded"
  BY <1>1, <1>2, RepliesJudgedTruly
<1>4. /\ question'.is = "read back" /\ question'.input = question /\ question'.requested = answer
      /\ question'.observed = observed /\ answer'.is = ReadBack(answer, observed)
  BY <1>2
<1>5. RepliesAreAsAsked'
  BY <1>3, <1>4 DEF RepliesAreAsAsked
<1> QED
  BY <1>4, <1>5 DEF AnswersInv, RepliesAreAnswered, WritesAreJudgedTruly, VerdictsAreTrue

\* What is reported of a write is what became of it: a row says succeeded only
\* of what Exchange did and failed only of what it did not, and an update of
\* automatic replies is called a success only if every sender is answered what
\* the user asked for (Acknowledgements, AutoReplies).
THEOREM AnswersHold == ProtocolSpec => []WritesAreJudgedTruly
<1>1. ProtocolInit => AnswersInv
  <2>1. SUFFICES ASSUME ProtocolInit
                 PROVE  AnswersInv
    OBVIOUS
  <2>2. CASE question \in WriteQuestions
    <3>1. question.is = "write"
      BY <2>2 DEF WriteQuestions
    <3> QED
      BY <2>2, <3>1 DEF AnswersInv, RepliesAreAnswered, WritesAreJudgedTruly, VerdictsAreTrue, RepliesAreAsAsked
  <2>3. CASE question \in ReplyQuestions
    <3>1. question.is = "replies"
      BY <2>3 DEF ReplyQuestions
    <3> QED
      BY <2>1, <2>3, <3>1 DEF ProtocolInit, AnswersInv, RepliesAreAnswered, WritesAreJudgedTruly,
          VerdictsAreTrue, RepliesAreAsAsked
  <2> QED
    BY <2>1, <2>2, <2>3 DEF ProtocolInit, ProtocolQuestions
<1>2. AnswersInv /\ [AskProtocol]_<<question, answer>> => AnswersInv'
  <2>1. SUFFICES ASSUME AnswersInv, [AskProtocol]_<<question, answer>>
                 PROVE  AnswersInv'
    OBVIOUS
  <2>2. CASE AskProtocol
    BY <2>1, <2>2, WriteIsJudged, RepliesAreRequested, RepliesAreReadBack DEF AskProtocol
  <2>3. CASE question' = question /\ answer' = answer
    <3>1. VerdictsAreTrue /\ RepliesAreAsAsked
      BY <2>1 DEF AnswersInv, WritesAreJudgedTruly
    <3>2. VerdictsAreTrue'
      BY <2>3, <3>1 DEF VerdictsAreTrue
    <3>3. RepliesAreAsAsked'
      BY <2>3, <3>1 DEF RepliesAreAsAsked
    <3>4. RepliesAreAnswered'
      BY <2>1, <2>3 DEF AnswersInv, RepliesAreAnswered
    <3> QED
      BY <2>1, <2>3, <3>2, <3>3, <3>4 DEF AnswersInv, WritesAreJudgedTruly
  <2> QED
    BY <2>1, <2>2, <2>3
<1>3. AnswersInv => WritesAreJudgedTruly
  BY DEF AnswersInv
<1> QED
  BY <1>1, <1>2, <1>3, PTL DEF ProtocolSpec

----
(* Months of a series *)

\* A set of numbers has a least one.
LEMMA LeastOf ==
    ASSUME NEW S \in SUBSET Nat, S # {}
    PROVE  \E m \in S : \A n \in S : m <= n
<1> PICK top \in S : TRUE
  OBVIOUS
<1> DEFINE T == {0 .. n : n \in {k \in S : k <= top}}
<1>1. T # {}
  <2>1. top \in {k \in S : k <= top}
    OBVIOUS
  <2> QED
    BY <2>1
<1>2. T \subseteq SUBSET (0 .. top)
  <2>1. ASSUME NEW n \in S, n <= top PROVE 0 .. n \subseteq 0 .. top
    BY <2>1
  <2> QED
    BY <2>1
<1>3. PICK t \in T : \A u \in T : ~(<<u, t>> \in StrictSubsetOrdering(0 .. top))
  <2>1. IsWellFoundedOn(StrictSubsetOrdering(0 .. top), FiniteSubsetsOf(0 .. top))
    BY FS_StrictSubsetOrderingWellFounded
  <2>2. FiniteSubsetsOf(0 .. top) = SUBSET (0 .. top)
    <3>1. IsFiniteSet(0 .. top)
      BY FS_Interval
    <3> QED
      BY <3>1, FS_FiniteSubsetsOfFinite
  <2> HIDE DEF T
  <2>3. T \subseteq FiniteSubsetsOf(0 .. top) /\ T # {}
    BY <1>1, <1>2, <2>2
  <2> QED
    BY <2>1, <2>3, WFMin
<1>4. PICK m \in S : m <= top /\ t = 0 .. m
  BY <1>3
<1>5. ASSUME NEW n \in S, ~(m <= n) PROVE FALSE
  <2>1. n <= top /\ 0 .. n \in T
    BY <1>4, <1>5
  <2>2. 0 .. n \subseteq 0 .. m /\ 0 .. n # 0 .. m
    <3>1. m \notin 0 .. n /\ m \in 0 .. m /\ n \in Nat /\ m \in Nat
      BY <1>5
    <3> QED
      BY <1>5, <3>1
  <2>3. <<0 .. n, t>> \in StrictSubsetOrdering(0 .. top)
    BY <1>2, <1>4, <2>1, <2>2 DEF StrictSubsetOrdering
  <2> QED
    BY <1>3, <2>1, <2>3
<1> QED
  BY <1>5

\* The start of a month of a year.
StartIn(year, month) ==
    YearStart(year) + DaysBefore[1 + month] + IF year % 4 = 1 /\ month >= 2 THEN 1 ELSE 0

\* Month by month: a month begins where the one before it ends.
LEMMA MonthStep ==
    ASSUME NEW k \in 0 .. Months - 1
    PROVE  /\ MonthStart[k] \in Nat
           /\ MonthLength(k) \in 28 .. 31
           /\ MonthStart[k + 1] = MonthStart[k] + MonthLength(k)
<1> PICK y \in Nat, r \in 0 .. 11 : k \div 12 = y /\ k % 12 = r
  OBVIOUS
<1>0. Months \in Nat \ {0}
  BY CalendarIsWhole
<1>1. \A m \in 0 .. Months : MonthStart[m] = StartIn(m \div 12, m % 12)
  BY DEF MonthStart, StartIn
<1>2. PICK leap \in {0, 1} : leap = (IF y % 4 = 1 THEN 1 ELSE 0)
  OBVIOUS
<1>3. YearStart(y) \in Nat /\ YearStart(y + 1) = YearStart(y) + 365 + leap
  BY <1>2 DEF YearStart
<1>4. MonthStart[k] = StartIn(y, r)
  BY <1>0, <1>1
<1>5. /\ DaysBefore[1] = 0 /\ DaysBefore[2] = 31 /\ DaysBefore[3] = 59 /\ DaysBefore[4] = 90
      /\ DaysBefore[5] = 120 /\ DaysBefore[6] = 151 /\ DaysBefore[7] = 181 /\ DaysBefore[8] = 212
      /\ DaysBefore[9] = 243 /\ DaysBefore[10] = 273 /\ DaysBefore[11] = 304 /\ DaysBefore[12] = 334
  BY DEF DaysBefore
<1>6. MonthLength(k) = IF r = 1 THEN 28 + leap ELSE IF r \in {3, 5, 8, 10} THEN 30 ELSE 31
  BY <1>2 DEF MonthLength
<1>7. StartIn(y, r) \in Nat
  <2>1. DaysBefore[1 + r] \in Nat
    BY <1>5
  <2> QED
    BY <1>3, <2>1 DEF StartIn
<1>8. CASE r < 11
  <2>1. (k + 1) \div 12 = y /\ (k + 1) % 12 = r + 1
    BY <1>8
  <2>2. MonthStart[k + 1] = StartIn(y, r + 1)
    BY <1>0, <1>1, <2>1
  <2>3. r \in {0, 1, 2, 3, 4, 5, 6, 7, 8, 9, 10}
    BY <1>8
  <2>4. StartIn(y, r + 1) = StartIn(y, r) + MonthLength(k)
    BY <1>2, <1>3, <1>5, <1>6, <2>3 DEF StartIn
  <2> QED
    BY <1>4, <1>6, <1>7, <2>2, <2>4
<1>9. CASE r = 11
  <2>1. (k + 1) \div 12 = y + 1 /\ (k + 1) % 12 = 0
    BY <1>9
  <2>2. MonthStart[k + 1] = StartIn(y + 1, 0)
    BY <1>0, <1>1, <2>1
  <2>3. StartIn(y + 1, 0) = StartIn(y, r) + 31
    BY <1>2, <1>3, <1>5, <1>9 DEF StartIn
  <2> QED
    BY <1>4, <1>6, <1>7, <1>9, <2>2, <2>3
<1> QED
  BY <1>8, <1>9

\* Months are in order, and four weeks long at least.
LEMMA MonthFacts ==
    /\ Months \in Nat \ {0} /\ MonthStart[0] = 0
    /\ \A k \in 0 .. Months : MonthStart[k] \in Nat
    /\ \A j, k \in 0 .. Months : j < k => MonthStart[j] + 28 <= MonthStart[k]
<1>1. Months \in Nat \ {0}
  BY CalendarIsWhole
<1>2. MonthStart[0] = 0
  <2>1. 0 \in 0 .. Months /\ 0 \div 12 = 0 /\ 0 % 12 = 0 /\ 0 % 4 = 0
    BY <1>1
  <2>2. DaysBefore[1] = 0 /\ YearStart(0) = 0
    BY DEF DaysBefore, YearStart
  <2> QED
    BY <2>1, <2>2 DEF MonthStart
<1>3. ASSUME NEW k \in 0 .. Months PROVE MonthStart[k] \in Nat
  <2>1. CASE k = Months
    <3>1. Months - 1 \in 0 .. Months - 1 /\ (Months - 1) + 1 = k
      BY <1>1, <2>1
    <3> QED
      BY <3>1, MonthStep
  <2>2. CASE k # Months
    <3>1. k \in 0 .. Months - 1
      BY <1>1, <2>2
    <3> QED
      BY <3>1, MonthStep
  <2> QED
    BY <2>1, <2>2
<1>4. ASSUME NEW j \in 0 .. Months, NEW k \in 0 .. Months, j < k, ~(MonthStart[j] + 28 <= MonthStart[k]) PROVE FALSE
  <2> DEFINE S == {n \in j + 1 .. Months : ~(MonthStart[j] + 28 <= MonthStart[n])}
  <2>1. S \in SUBSET Nat /\ k \in S
    BY <1>1, <1>4
  <2>2. PICK n \in S : \A m \in S : n <= m
    BY <2>1, LeastOf
  <2>3. n - 1 \in 0 .. Months - 1 /\ n - 1 \notin S /\ j \in 0 .. Months - 1
    BY <1>1, <2>2
  <2>4. MonthStart[n] >= MonthStart[n - 1] + 28 /\ MonthStart[n - 1] \in Nat
    BY <2>3, MonthStep, (n - 1) + 1 = n
  <2>5. n - 1 = j \/ MonthStart[j] + 28 <= MonthStart[n - 1]
    BY <1>1, <2>3
  <2> QED
    BY <1>3, <2>3, <2>4, <2>5
<1> QED
  BY <1>1, <1>2, <1>3, <1>4

\* Every date is in one month.
LEMMA MonthOfFacts ==
    ASSUME NEW d \in Days
    PROVE  /\ MonthOf[d] \in 0 .. Months - 1
           /\ MonthStart[MonthOf[d]] <= d /\ d < MonthStart[MonthOf[d] + 1]
           /\ \A k \in 0 .. Months - 1 : MonthStart[k] <= d /\ d < MonthStart[k + 1] => k = MonthOf[d]
<1>0. d \in Nat /\ d < MonthStart[Months] /\ Months \in Nat \ {0} /\ MonthStart[Months] \in Nat
  BY MonthFacts DEF Days
<1> DEFINE S == {n \in 0 .. Months : d < MonthStart[n]}
<1>1. PICK n \in S : \A m \in S : n <= m
  <2>1. S \in SUBSET Nat /\ Months \in S
    BY <1>0
  <2> QED
    BY <2>1, LeastOf
<1>2. n - 1 \in 0 .. Months - 1 /\ n - 1 \notin S
  BY <1>0, <1>1, MonthFacts
<1>3. MonthStart[n - 1] <= d /\ d < MonthStart[(n - 1) + 1]
  BY <1>0, <1>1, <1>2, MonthFacts
<1>4. MonthOf[d] \in 0 .. Months - 1 /\ MonthStart[MonthOf[d]] <= d /\ d < MonthStart[MonthOf[d] + 1]
  BY <1>2, <1>3 DEF MonthOf
<1>5. ASSUME NEW k \in 0 .. Months - 1, NEW j \in 0 .. Months - 1, j < k,
             MonthStart[k] <= d, d < MonthStart[j + 1]
      PROVE FALSE
  <2>1. j + 1 = k \/ MonthStart[j + 1] + 28 <= MonthStart[k]
    BY <1>0, <1>5, MonthFacts
  <2>2. MonthStart[k] \in Nat /\ MonthStart[j + 1] \in Nat
    BY <1>0, MonthFacts
  <2> QED
    BY <1>0, <1>5, <2>1, <2>2
<1> QED
  BY <1>0, <1>4, <1>5

----
(* Arithmetic and counting *)

\* Two multiples of n differ by n at least.
LEMMA MultiplesAreApart ==
    ASSUME NEW a \in Int, NEW b \in Int, NEW n \in Nat \ {0}, a < b
    PROVE  n * a + n <= n * b
OBVIOUS

\* Quotient and remainder.
LEMMA Division ==
    ASSUME NEW a \in Int, NEW n \in Nat \ {0}
    PROVE  /\ a \div n \in Int /\ a % n \in 0 .. n - 1
           /\ a = n * (a \div n) + (a % n)
OBVIOUS

\* ... are the only ones.
LEMMA Quotient ==
    ASSUME NEW n \in Nat \ {0}, NEW a \in Int, NEW q \in Int, NEW r \in 0 .. n - 1, a = n * q + r
    PROVE  a \div n = q /\ a % n = r
<1> PICK p \in Int, t \in 0 .. n - 1 : a \div n = p /\ a % n = t /\ a = n * p + t
  BY Division
<1>1. ASSUME p < q PROVE FALSE
  <2>1. n * p + n <= n * q
    BY <1>1, MultiplesAreApart
  <2> QED
    BY <2>1
<1>2. ASSUME q < p PROVE FALSE
  <2>1. n * q + n <= n * p
    BY <1>2, MultiplesAreApart
  <2> QED
    BY <2>1
<1> QED
  BY <1>1, <1>2

\* What a multiple is divided into.
LEMMA ExactQuotient ==
    ASSUME NEW n \in Nat \ {0}, NEW a \in Int, NEW q \in Int, a = n * q
    PROVE  a \div n = q /\ a % n = 0
<1>1. 0 \in 0 .. n - 1 /\ a = n * q + 0
  OBVIOUS
<1> QED
  BY <1>1, Quotient

\* No remainder: a multiple.
LEMMA ExactDivision ==
    ASSUME NEW n \in Nat \ {0}, NEW a \in Int, a % n = 0
    PROVE  \E q \in Int : q = a \div n /\ a = n * q
OBVIOUS

\* A multiple that is not negative.
LEMMA NaturalQuotient ==
    ASSUME NEW n \in Nat \ {0}, NEW q \in Int, 0 <= n * q
    PROVE  q \in Nat
OBVIOUS

\* Multiples of n.
LEMMA QuotientsAdd ==
    ASSUME NEW n \in Nat \ {0}, NEW a \in Int, NEW b \in Int, a % n = 0
    PROVE  /\ b % n = 0 <=> (b - a) % n = 0
           /\ b % n = 0 => b \div n = (a \div n) + ((b - a) \div n)
<1> PICK p \in Int : a \div n = p /\ a = n * p
  BY Division
<1> PICK q \in Int, r \in 0 .. n - 1 : b \div n = q /\ b % n = r /\ b = n * q + r
  BY Division
<1>1. b - a = n * (q - p) + r
  <2>1. n * (q - p) = n * q - n * p /\ n * q \in Int /\ n * p \in Int
    OBVIOUS
  <2> QED
    BY <2>1
<1>2. (b - a) \div n = q - p /\ (b - a) % n = r
  <2>1. q - p \in Int /\ b - a \in Int
    OBVIOUS
  <2> QED
    BY ONLY <1>1, <2>1, Quotient, n \in Nat \ {0}, r \in 0 .. n - 1
<1> QED
  BY <1>2

\* A set shifted by k is as large.
LEMMA CountOfShifted ==
    ASSUME NEW S \in SUBSET Int, IsFiniteSet(S), NEW k \in Int
    PROVE  LET T == {k + i : i \in S} IN IsFiniteSet(T) /\ Cardinality(T) = Cardinality(S)
<1> DEFINE T == {k + i : i \in S}
           f == [i \in S |-> k + i]
<1>1. f \in Bijection(S, T)
  <2>1. f \in [S -> T] /\ \A t \in T : \E i \in S : f[i] = t
    OBVIOUS
  <2>2. \A i, j \in S : f[i] = f[j] => i = j
    OBVIOUS
  <2> QED
    BY <2>1, <2>2 DEF Bijection, Injection, Surjection, IsInjective
<1>2. ExistsBijection(S, T)
  BY <1>1 DEF ExistsBijection
<1> QED
  BY <1>2, FS_Bijection

\* Sets without a common member add up.
LEMMA CountOfDisjoint ==
    ASSUME NEW S, NEW T, IsFiniteSet(S), IsFiniteSet(T), S \cap T = {}
    PROVE  IsFiniteSet(S \union T) /\ Cardinality(S \union T) = Cardinality(S) + Cardinality(T)
<1>1. Cardinality(S \cap T) = 0
  BY FS_EmptySet
<1>2. Cardinality(S) \in Nat /\ Cardinality(T) \in Nat
  BY FS_CardinalityType
<1>3. /\ IsFiniteSet(S \union T)
      /\ Cardinality(S \union T) = Cardinality(S) + Cardinality(T) - Cardinality(S \cap T)
  BY FS_Union
<1> QED
  BY ONLY <1>1, <1>2, <1>3

----
(* Nominal dates *)

\* Rules that have a date in a month.
CalendarKinds == {"monthly", "monthlyNth", "yearly", "yearlyNth"}

\* A month has at most one nominal date.
LEMMA NominalFacts ==
    ASSUME NEW rule \in Rules, rule.kind \in CalendarKinds, NEW k \in 0 .. Months - 1
    PROVE  /\ \A d \in Nominal(rule, k) : d \in Int /\ MonthStart[k] <= d /\ d < MonthStart[k + 1]
           /\ \A d, e \in Nominal(rule, k) : d = e
<1> PICK first \in Nat, len \in 28 .. 31 :
        MonthStart[k] = first /\ MonthLength(k) = len /\ MonthStart[k + 1] = first + len
  BY MonthStep
<1>1. CASE rule.kind \in {"monthlyNth", "yearlyNth"}
  <2> DEFINE all == first .. first + len - 1
             matches == {d \in all : Weekday(d) \in rule.days}
             upTo(d) == {e \in matches : e <= d}
  <2>1. Nominal(rule, k) = IF rule.nth = 5 THEN {d \in matches : \A e \in matches : e <= d}
                           ELSE {d \in matches : Cardinality(upTo(d)) = rule.nth}
    <3>1. Nominal(rule, k) = NthDate(k, rule.days, rule.nth)
      BY <1>1 DEF Nominal
    <3>2. all = MonthStart[k] .. MonthStart[k + 1] - 1
      OBVIOUS
    <3> HIDE DEF all
    <3>3. NthDate(k, rule.days, rule.nth) = IF rule.nth = 5 THEN {d \in matches : \A e \in matches : e <= d}
              ELSE {d \in matches : Cardinality(upTo(d)) = rule.nth}
      BY <3>2, Zenon DEF NthDate
    <3> QED
      BY <3>1, <3>3, Zenon
  <2>2. Nominal(rule, k) \subseteq matches
    <3> HIDE DEF matches, upTo
    <3>1. CASE rule.nth = 5
      BY <2>1, <3>1
    <3>2. CASE rule.nth # 5
      BY <2>1, <3>2
    <3> QED
      BY <3>1, <3>2
  <2>3. IsFiniteSet(matches)
    <3>1. IsFiniteSet(all)
      <4>1. first \in Int /\ first + len - 1 \in Int
        OBVIOUS
      <4> QED
        BY <4>1, FS_Interval
    <3>2. matches \in SUBSET all
      OBVIOUS
    <3> HIDE DEF all, matches
    <3> QED
      BY <3>1, <3>2, FS_Subset
  <2>4. ASSUME NEW d \in Nominal(rule, k), NEW e \in Nominal(rule, k), d < e PROVE FALSE
    <3>1. rule.nth # 5 /\ Cardinality(upTo(d)) = Cardinality(upTo(e))
      BY <2>1, <2>4
    <3>2. upTo(d) \in SUBSET upTo(e) /\ IsFiniteSet(upTo(e)) /\ e \in upTo(e) /\ e \notin upTo(d)
      BY <2>2, <2>3, <2>4, FS_Subset
    <3> HIDE DEF upTo
    <3> QED
      BY <3>1, <3>2, FS_Subset
  <2>5. \A d \in Nominal(rule, k) : d \in Int /\ first <= d /\ d < first + len
    BY <2>2
  <2> QED
    BY <2>4, <2>5
<1>2. CASE rule.kind \in {"monthly", "yearly"}
  <2>1. PICK day \in Nat \ {0} : rule.day = day
    BY <1>2 DEF Rules
  <2>2. Nominal(rule, k) = {first + Least({day, len}) - 1}
    BY <1>2, <2>1 DEF Nominal, CalendarDay
  <2>3. Least({day, len}) \in 1 .. len
    <3>1. \E x \in {day, len} : \A y \in {day, len} : x <= y
      OBVIOUS
    <3> QED
      BY <3>1 DEF Least
  <2>4. first + Least({day, len}) - 1 \in first .. first + len - 1
    BY <2>3
  <2> QED
    BY <2>2, <2>4
<1> QED
  BY <1>1, <1>2 DEF CalendarKinds

----
(* Monthly and yearly rules.  From a master the rule visits every Stride-th *)
(* month from FirstMonth.                                                   *)

IsYearly(rule) == rule.kind \in {"yearly", "yearlyNth"}
Stride(rule) == IF IsYearly(rule) THEN 12 * rule.interval ELSE rule.interval
FirstMonth(rule, master) ==
    IF IsYearly(rule) THEN 12 * (MonthOf[master] \div 12) + rule.month - 1 ELSE MonthOf[master]

\* d is the date of the k-th month.
IsAt(rule, master, d, k) ==
    /\ d \in Days /\ k \in Nat
    /\ MonthOf[d] = FirstMonth(rule, master) + Stride(rule) * k
    /\ d \in Nominal(rule, MonthOf[d])

\* Months 0 to n have a date from lo to hi.
Visited(rule, base, n, lo, hi) ==
    {k \in 0 .. n : \E d \in Nominal(rule, base + Stride(rule) * k) : lo <= d /\ d <= hi}

\* A yearly rule may begin after its month: then its first date is next year.
Late(rule, master) == IF MonthOf[master] > FirstMonth(rule, master) THEN 1 ELSE 0

\* Later dates are not of earlier months.
LEMMA MonthsOrdered ==
    ASSUME NEW d \in Days, NEW e \in Days, d <= e
    PROVE  MonthOf[d] <= MonthOf[e]
<1>1. ASSUME MonthOf[e] < MonthOf[d] PROVE FALSE
  <2> PICK j \in 0 .. Months - 1, k \in 0 .. Months - 1 : MonthOf[e] = j /\ MonthOf[d] = k
    BY MonthOfFacts
  <2>1. e < MonthStart[j + 1] /\ MonthStart[k] <= d /\ d \in Nat /\ e \in Nat
    BY MonthOfFacts DEF Days
  <2>2. j + 1 = k \/ MonthStart[j + 1] + 28 <= MonthStart[k]
    BY <1>1, MonthFacts
  <2>3. MonthStart[j + 1] \in Nat /\ MonthStart[k] \in Nat
    BY MonthFacts
  <2> QED
    BY <2>1, <2>2, <2>3
<1> QED
  BY <1>1, MonthOfFacts

\* The fields of a rule.
LEMMA RuleFacts ==
    ASSUME NEW rule \in Rules
    PROVE  /\ rule.interval \in Nat \ {0} /\ Stride(rule) \in Nat \ {0}
           /\ IsYearly(rule) => rule.month \in 1 .. 12
           /\ IsYearly(rule) => Stride(rule) = 12 * rule.interval
           /\ ~IsYearly(rule) => Stride(rule) = rule.interval
           /\ rule.days \in SUBSET (0 .. 6) /\ rule.first \in 0 .. 6
           /\ rule.count \in Int /\ rule.until \in Int /\ (rule.count = Never \/ rule.count > 0)
           /\ rule.kind \in RuleKinds
<1> PICK interval \in Nat \ {0} : rule.interval = interval
  BY DEF Rules
<1> QED
  BY DEF Rules, Stride, IsYearly

\* Dates of a monthly rule: where they are, and how they are counted.
LEMMA MonthlyMember ==
    ASSUME NEW rule \in Rules, rule.kind \in CalendarKinds, ~IsYearly(rule),
           NEW master \in Days, NEW d \in Days, master <= d
    PROVE  /\ Ordinal(rule, d, master) # NotMember => \E k \in Nat : IsAt(rule, master, d, k)
           /\ \A k \in Nat : IsAt(rule, master, d, k) =>
                 Ordinal(rule, d, master) =
                     Cardinality(Visited(rule, FirstMonth(rule, master), k - Late(rule, master), master, d))
<1> PICK M \in 0 .. Months - 1, D \in 0 .. Months - 1 : MonthOf[master] = M /\ MonthOf[d] = D
  BY MonthOfFacts
<1> PICK S \in Nat \ {0} : Stride(rule) = S
  BY RuleFacts
<1>1. M \in Int /\ D \in Int /\ M <= D /\ ~(d < master)
  <2>1. d \in Int /\ master \in Int
    BY DEF Days
  <2> QED
    BY <2>1, MonthsOrdered
<1>2. FirstMonth(rule, master) = M /\ Late(rule, master) = 0 /\ rule.interval = S
  BY <1>1, RuleFacts DEF FirstMonth, Late
<1> DEFINE cycles == (D - M) \div S
           indices == {k \in 0 .. cycles : \E e \in Nominal(rule, M + k * S) : master <= e /\ e <= d}
<1>3. Ordinal(rule, d, master) =
          IF (D - M) % S # 0 \/ d \notin Nominal(rule, D) THEN NotMember ELSE Cardinality(indices)
  <2>1. Ordinal(rule, d, master) = Monthly(rule, d, master)
    BY <1>1, Zenon DEF Ordinal, IsYearly, CalendarKinds
  <2>2. Monthly(rule, d, master) =
            IF (D - M) % S # 0 THEN NotMember ELSE CalendarOrdinal(rule, d, master, FALSE)
    BY <1>2 DEF Monthly
  <2>3. CalendarOrdinal(rule, d, master, FALSE) =
            IF d \notin Nominal(rule, D) THEN NotMember ELSE Cardinality(indices)
    BY <1>2 DEF CalendarOrdinal
  <2> QED
    BY <2>1, <2>2, <2>3
<1>4. ASSUME Ordinal(rule, d, master) # NotMember PROVE \E k \in Nat : IsAt(rule, master, d, k)
  <2>1. (D - M) % S = 0 /\ d \in Nominal(rule, D)
    BY <1>3, <1>4
  <2>2. cycles \in Nat /\ D - M = S * cycles
    <3> PICK q \in Int : q = cycles /\ D - M = S * q + 0
      <4>1. D - M \in Int
        BY <1>1
      <4> QED
        BY ONLY <2>1, <4>1, Division, S \in Nat \ {0}
    <3>1. 0 <= S * q /\ S * q = D - M
      BY <1>1
    <3> QED
      BY <3>1, NaturalQuotient
  <2>3. IsAt(rule, master, d, cycles)
    BY <1>2, <2>1, <2>2 DEF IsAt
  <2> QED
    BY <2>2, <2>3
<1>5. ASSUME NEW k \in Nat, IsAt(rule, master, d, k)
      PROVE  Ordinal(rule, d, master) = Cardinality(Visited(rule, M, k - 0, master, d))
  <2>1. D = M + S * k /\ d \in Nominal(rule, D) /\ S * k \in Int
    BY <1>2, <1>5 DEF IsAt
  <2>2. cycles = k /\ (D - M) % S = 0
    <3>1. D - M \in Int /\ D - M = S * k + 0 /\ 0 \in 0 .. S - 1 /\ k \in Int
      BY <1>1, <2>1
    <3> QED
      BY <3>1, Quotient
  <2>3. \A j \in Int : M + j * S = M + S * j
    OBVIOUS
  <2>4. indices = Visited(rule, M, k - 0, master, d)
    BY <2>2, <2>3 DEF Visited
  <2> QED
    BY <1>3, <2>1, <2>2, <2>4
<1> QED
  BY <1>2, <1>4, <1>5

\* ... and of a yearly one, which looks at the same month of every year.
LEMMA YearlyMember ==
    ASSUME NEW rule \in Rules, rule.kind \in CalendarKinds, IsYearly(rule),
           NEW master \in Days, NEW d \in Days, master <= d
    PROVE  /\ Ordinal(rule, d, master) # NotMember => \E k \in Nat : IsAt(rule, master, d, k)
           /\ \A k \in Nat : IsAt(rule, master, d, k) =>
                 Ordinal(rule, d, master) =
                     Cardinality(Visited(rule, FirstMonth(rule, master), k - Late(rule, master), master, d))
<1> PICK M \in 0 .. Months - 1, D \in 0 .. Months - 1 : MonthOf[master] = M /\ MonthOf[d] = D
  BY MonthOfFacts
<1> PICK I \in Nat \ {0}, month \in 1 .. 12 : rule.interval = I /\ rule.month = month
  BY RuleFacts
<1> PICK S \in Nat \ {0} : S = 12 * I
  OBVIOUS
<1> PICK Y \in Int, YD \in Int, u \in 0 .. 11, v \in 0 .. 11 :
        /\ M \div 12 = Y /\ M = 12 * Y + u
        /\ D \div 12 = YD /\ D = 12 * YD + v
  OBVIOUS
<1>1. M \in Int /\ D \in Int /\ M <= D /\ ~(d < master)
  <2>1. d \in Int /\ master \in Int
    BY DEF Days
  <2> QED
    BY <2>1, MonthsOrdered
<1>2. /\ Stride(rule) = S
      /\ FirstMonth(rule, master) = 12 * Y + month - 1
  BY <1>1, RuleFacts DEF FirstMonth
<1> PICK B \in Int, z \in {0, 1} : B = 12 * Y + month - 1 /\ z = Late(rule, master)
  BY DEF Late
<1>3. FirstMonth(rule, master) = B /\ z = IF M > B THEN 1 ELSE 0
  BY <1>2 DEF Late
<1> DEFINE cycles == (D - M) \div S
           dates(m) == Nominal(rule, 12 * (m \div 12) + month - 1)
           indices == {k \in 0 .. cycles : \E e \in dates(M + k * S) : master <= e /\ e <= d}
<1>4. Ordinal(rule, d, master) =
          IF (YD - Y) % I # 0 \/ d \notin Nominal(rule, 12 * YD + month - 1) THEN NotMember ELSE Cardinality(indices)
  <2>1. Ordinal(rule, d, master) = Yearly(rule, d, master)
    BY <1>1, Zenon DEF Ordinal, IsYearly, CalendarKinds
  <2>2. Yearly(rule, d, master) =
            IF (YD - Y) % I # 0 THEN NotMember ELSE CalendarOrdinal(rule, d, master, TRUE)
    BY DEF Yearly
  <2>3. CalendarOrdinal(rule, d, master, TRUE) =
            IF d \notin dates(D) THEN NotMember ELSE Cardinality(indices)
    BY DEF CalendarOrdinal
  <2> QED
    BY <2>1, <2>2, <2>3
<1>5. ASSUME Ordinal(rule, d, master) # NotMember PROVE \E k \in Nat : IsAt(rule, master, d, k)
  <2> PICK K \in Int : K = 12 * YD + month - 1
    OBVIOUS
  <2>1. (YD - Y) % I = 0 /\ d \in Nominal(rule, K)
    BY <1>4, <1>5
  <2>2. K \in 0 .. Months - 1
    <3> PICK years \in Int : Months = 12 * years
      BY CalendarIsWhole
    <3>1. YD \in Int /\ YD >= 0 /\ YD + 1 <= years
      OBVIOUS
    <3>2. K = 12 * YD + month - 1 /\ month \in 1 .. 12 /\ Months = 12 * years /\ years \in Int
      OBVIOUS
    <3>3. Months \in Int /\ K \in Int /\ K >= 0 /\ K <= Months - 1
      BY ONLY <3>1, <3>2
    <3> QED
      BY ONLY <3>3
  <2>3. K = D
    BY <2>1, <2>2, NominalFacts, MonthOfFacts
  <2> PICK k \in Int : YD - Y = I * k
    <3>1. YD - Y \in Int
      OBVIOUS
    <3> QED
      BY ONLY <2>1, <3>1, ExactDivision, I \in Nat \ {0}
  <2>4. k \in Nat
    <3>1. YD - Y >= 0
      BY <1>1
    <3> QED
      BY <3>1, NaturalQuotient
  <2>5. D = B + S * k
    <3>1. S * k = 12 * (I * k) /\ I * k \in Int
      OBVIOUS
    <3> QED
      BY <2>3, <3>1
  <2>6. IsAt(rule, master, d, k)
    BY <1>2, <1>3, <2>1, <2>3, <2>4, <2>5 DEF IsAt
  <2> QED
    BY <2>4, <2>6
<1>6. ASSUME NEW k \in Nat, IsAt(rule, master, d, k)
      PROVE  Ordinal(rule, d, master) = Cardinality(Visited(rule, B, k - z, master, d))
  <2>1. D = B + S * k /\ d \in Nominal(rule, D) /\ S * k \in Int /\ S * k = 12 * (I * k) /\ I * k \in Int
    BY <1>2, <1>3, <1>6 DEF IsAt
  <2>2. YD = Y + I * k /\ D = 12 * YD + month - 1
    BY <2>1
  <2>3. (YD - Y) % I = 0
    <3>1. YD - Y \in Int /\ YD - Y = I * k /\ k \in Int
      BY <2>1, <2>2
    <3> QED
      BY ONLY <3>1, ExactQuotient, I \in Nat \ {0}
  <2>4. cycles = k - z
    <3>1. CASE z = 0
      <4>1. D - M = S * (k - z) + (B - M) /\ B - M \in 0 .. S - 1 /\ k - z \in Int /\ D - M \in Int
        BY <1>1, <1>3, <2>1, <3>1
      <4> QED
        BY ONLY <4>1, Quotient, S \in Nat \ {0}
    <3>2. CASE z = 1
      <4>1. S * (k - 1) = S * k - S
        OBVIOUS
      <4>2. D - M = S * (k - z) + (S + (B - M)) /\ S + (B - M) \in 0 .. S - 1 /\ k - z \in Int /\ D - M \in Int
        BY <1>1, <1>3, <2>1, <3>2, <4>1
      <4> QED
        BY ONLY <4>2, Quotient, S \in Nat \ {0}
    <3> QED
      BY <3>1, <3>2
  <2>5. ASSUME NEW j \in Int PROVE dates(M + j * S) = Nominal(rule, B + S * j)
    <3>1. M + j * S = 12 * (Y + I * j) + u /\ S * j = 12 * (I * j) /\ I * j \in Int
      <4>1. j * S = 12 * (I * j) /\ S * j = 12 * (I * j) /\ I * j \in Int
        OBVIOUS
      <4> QED
        BY <4>1
    <3>2. (M + j * S) \div 12 = Y + I * j
      BY <3>1
    <3>3. 12 * ((M + j * S) \div 12) + month - 1 = B + S * j
      BY <3>1, <3>2
    <3> QED
      BY <3>3
  <2>6. indices = Visited(rule, B, k - z, master, d)
    <3>1. \A j \in 0 .. cycles : dates(M + j * S) = Nominal(rule, B + Stride(rule) * j)
      BY <1>2, <2>5
    <3>2. cycles \in Int /\ cycles = k - z
      BY <2>4
    <3> HIDE DEF dates, cycles
    <3> QED
      BY <3>1, <3>2 DEF Visited
  <2> QED
    BY <1>4, <2>1, <2>2, <2>3, <2>6
<1> QED
  BY <1>3, <1>5, <1>6

\* A date of a rule is the date of one of its months, and is counted so.
LEMMA CalendarMember ==
    ASSUME NEW rule \in Rules, rule.kind \in CalendarKinds,
           NEW master \in Days, NEW d \in Days, master <= d
    PROVE  /\ Ordinal(rule, d, master) # NotMember <=> \E k \in Nat : IsAt(rule, master, d, k)
           /\ \A k \in Nat : IsAt(rule, master, d, k) =>
                 Ordinal(rule, d, master) =
                     Cardinality(Visited(rule, FirstMonth(rule, master), k - Late(rule, master), master, d))
<1>1. /\ Ordinal(rule, d, master) # NotMember => \E k \in Nat : IsAt(rule, master, d, k)
      /\ \A k \in Nat : IsAt(rule, master, d, k) =>
            Ordinal(rule, d, master) =
                Cardinality(Visited(rule, FirstMonth(rule, master), k - Late(rule, master), master, d))
  BY MonthlyMember, YearlyMember
<1>2. ASSUME NEW k \in Nat PROVE Visited(rule, FirstMonth(rule, master), k - Late(rule, master), master, d) \in SUBSET Nat
  BY DEF Visited
<1>3. ASSUME NEW k \in Nat, IsAt(rule, master, d, k) PROVE Ordinal(rule, d, master) \in Nat
  <2> PICK z \in {0, 1} : Late(rule, master) = z
    BY DEF Late
  <2> DEFINE counted == Visited(rule, FirstMonth(rule, master), k - z, master, d)
  <2>1. IsFiniteSet(0 .. k - z) /\ counted \in SUBSET (0 .. k - z)
    <3>1. 0 \in Int /\ k - z \in Int
      OBVIOUS
    <3> QED
      BY <3>1, FS_Interval DEF Visited
  <2>2. Cardinality(counted) \in Nat
    BY <2>1, FS_Subset, FS_CardinalityType
  <2> QED
    BY <1>1, <1>3, <2>2
<1> QED
  BY <1>1, <1>3 DEF NotMember

\* From a date of the rule, the months are those from its own.
LEMMA FirstMonthOfDate ==
    ASSUME NEW rule \in Rules, NEW master \in Days, NEW s, NEW k, IsAt(rule, master, s, k)
    PROVE  FirstMonth(rule, s) = MonthOf[s] /\ Late(rule, s) = 0
<1> PICK N \in 0 .. Months - 1, M \in 0 .. Months - 1 : MonthOf[s] = N /\ MonthOf[master] = M
  BY MonthOfFacts DEF IsAt
<1>1. CASE IsYearly(rule)
  <2> PICK I \in Nat \ {0}, month \in 1 .. 12 :
          rule.interval = I /\ rule.month = month /\ Stride(rule) = 12 * I
    BY <1>1, RuleFacts
  <2> PICK Y \in Int : Y = M \div 12
    OBVIOUS
  <2>1. N = 12 * Y + month - 1 + 12 * I * k /\ k \in Nat
    BY <1>1 DEF IsAt, FirstMonth
  <2> PICK p \in Int : p = I * k
    BY <2>1
  <2>2. 12 * I * k = 12 * p
    BY <2>1
  <2>3. N = 12 * (Y + p) + (month - 1)
    BY <2>1, <2>2
  <2>4. N \div 12 = Y + p
    <3>1. Y + p \in Int /\ month - 1 \in 0 .. 12 - 1 /\ N \in Int /\ 12 \in Nat \ {0}
      OBVIOUS
    <3> QED
      BY ONLY <2>3, <3>1, Quotient
  <2>5. FirstMonth(rule, s) = 12 * (N \div 12) + (month - 1)
    BY <1>1 DEF FirstMonth
  <2>6. FirstMonth(rule, s) = N /\ ~(N > N)
    BY ONLY <2>3, <2>4, <2>5, N \in 0 .. Months - 1
  <2> QED
    BY <2>6 DEF Late
<1>2. CASE ~IsYearly(rule)
  BY <1>2 DEF FirstMonth, Late
<1> QED
  BY <1>1, <1>2

\* The places of two dates tell their order.
LEMMA PlacesOrdered ==
    ASSUME NEW rule \in Rules, rule.kind \in CalendarKinds, NEW master \in Days,
           NEW s, NEW k, IsAt(rule, master, s, k), NEW d, NEW l, IsAt(rule, master, d, l), s <= d
    PROVE  k \in Nat /\ l \in Nat /\ k <= l /\ (s < d => k < l)
<1> PICK S \in Nat \ {0} : Stride(rule) = S
  BY RuleFacts
<1> PICK B \in Int : FirstMonth(rule, master) = B
  <2>1. MonthOf[master] \in Int
    BY MonthOfFacts
  <2>2. CASE IsYearly(rule)
    BY <2>1, <2>2, RuleFacts DEF FirstMonth
  <2>3. CASE ~IsYearly(rule)
    BY <2>1, <2>3 DEF FirstMonth
  <2> QED
    BY <2>2, <2>3
<1>1. /\ k \in Nat /\ l \in Nat /\ s \in Days /\ d \in Days
      /\ MonthOf[s] = B + S * k /\ MonthOf[d] = B + S * l
  BY DEF IsAt
<1>2. B + S * k <= B + S * l
  BY <1>1, MonthsOrdered
<1>3. ASSUME l < k PROVE FALSE
  <2>1. S * l + S <= S * k
    BY <1>1, <1>3, MultiplesAreApart
  <2> QED
    BY <1>1, <1>2, <2>1
<1>4. ASSUME k = l, s < d PROVE FALSE
  <2>1. s \in Nominal(rule, MonthOf[s]) /\ d \in Nominal(rule, MonthOf[s]) /\ MonthOf[s] \in 0 .. Months - 1
    BY <1>1, <1>4, MonthOfFacts DEF IsAt
  <2>2. s = d
    BY <2>1, NominalFacts
  <2> QED
    BY <1>1, <1>4, <2>2 DEF Days
<1> QED
  BY <1>1, <1>3, <1>4

\* The dates of a month before a date's are before it, those of later ones after.
LEMMA DatesOfMonths ==
    ASSUME NEW rule \in Rules, rule.kind \in CalendarKinds, NEW s \in Days, s \in Nominal(rule, MonthOf[s]),
           NEW k \in 0 .. Months - 1, NEW e \in Nominal(rule, k)
    PROVE  /\ e \in Int
           /\ k < MonthOf[s] => e < s
           /\ k = MonthOf[s] => e = s
           /\ MonthOf[s] < k => s < e
<1> PICK N \in 0 .. Months - 1 : MonthOf[s] = N
  BY MonthOfFacts
<1>1. e \in Int /\ MonthStart[k] <= e /\ e < MonthStart[k + 1]
  BY NominalFacts
<1>2. MonthStart[N] <= s /\ s < MonthStart[N + 1] /\ s \in Int
  BY MonthOfFacts DEF Days
<1>3. k + 1 \in 0 .. Months /\ N + 1 \in 0 .. Months /\ k \in 0 .. Months /\ N \in 0 .. Months
  BY MonthFacts
<1>4. /\ MonthStart[k] \in Int /\ MonthStart[k + 1] \in Int /\ MonthStart[N] \in Int /\ MonthStart[N + 1] \in Int
      /\ k < N => MonthStart[k + 1] <= MonthStart[N]
      /\ N < k => MonthStart[N + 1] <= MonthStart[k]
  BY <1>3, MonthFacts
<1>5. k = N => e = s
  BY NominalFacts
<1> QED
  BY <1>1, <1>2, <1>4, <1>5

\* The first month is a month, and may be before the master's.
LEMMA FirstMonthFacts ==
    ASSUME NEW rule \in Rules, NEW master \in Days
    PROVE  FirstMonth(rule, master) \in Nat /\ Late(rule, master) \in {0, 1}
<1> PICK M \in 0 .. Months - 1 : MonthOf[master] = M
  BY MonthOfFacts
<1> PICK Y \in Nat : Y = M \div 12
  OBVIOUS
<1>1. CASE IsYearly(rule)
  <2> PICK month \in 1 .. 12 : rule.month = month
    BY <1>1, RuleFacts
  <2> QED
    BY <1>1 DEF FirstMonth, Late
<1>2. CASE ~IsYearly(rule)
  BY <1>2 DEF FirstMonth, Late
<1> QED
  BY <1>1, <1>2

\* Counting from the master goes on as counting from a date of the rule.
LEMMA CountsAdd ==
    ASSUME NEW rule \in Rules, rule.kind \in CalendarKinds, NEW master \in Days,
           NEW s, NEW k, IsAt(rule, master, s, k), NEW d, NEW l, IsAt(rule, master, d, l),
           master <= s, s <= d,
           NEW z \in {0, 1}
    PROVE  LET base == FirstMonth(rule, master)
               all == Visited(rule, base, l - z, master, d)
               before == Visited(rule, base, k - z, master, s)
               after == Visited(rule, MonthOf[s], l - k, s, d)
           IN  /\ Cardinality(before) \in Nat /\ Cardinality(after) \in Nat \ {0}
               /\ Cardinality(all) = Cardinality(before) + (Cardinality(after) - 1)
               /\ s < d => Cardinality(after) >= 2
<1> PICK S \in Nat \ {0} : Stride(rule) = S
  BY RuleFacts
<1> PICK B \in Nat : FirstMonth(rule, master) = B
  BY FirstMonthFacts
<1> PICK N \in 0 .. Months - 1, D \in 0 .. Months - 1 : MonthOf[s] = N /\ MonthOf[d] = D
  BY MonthOfFacts DEF IsAt
<1> DEFINE month(i) == B + S * i
           all == Visited(rule, B, l - z, master, d)
           before == Visited(rule, B, k - z, master, s)
           after == Visited(rule, N, l - k, s, d)
<1>1. /\ k \in Nat /\ l \in Nat /\ k <= l /\ (s < d => k < l)
      /\ s \in Days /\ d \in Days /\ s \in Int /\ d \in Int /\ master \in Int
      /\ N = month(k) /\ D = month(l) /\ s \in Nominal(rule, N) /\ d \in Nominal(rule, D)
  <2>1. k \in Nat /\ l \in Nat /\ k <= l /\ (s < d => k < l)
    BY PlacesOrdered
  <2>2. s \in Days /\ d \in Days /\ N = month(k) /\ D = month(l) /\ s \in Nominal(rule, N) /\ d \in Nominal(rule, D)
    BY DEF IsAt
  <2>3. s \in Int /\ d \in Int /\ master \in Int
    BY <2>2 DEF Days
  <2> QED
    BY <2>1, <2>2, <2>3
<1>2. ASSUME NEW i \in 0 .. l
      PROVE  /\ month(i) \in 0 .. Months - 1
             /\ i < k => month(i) < N
             /\ i = k => month(i) = N
             /\ k < i => N < month(i)
  <2>1. /\ i < k => month(i) + S <= month(k)
        /\ k < i => month(k) + S <= month(i)
        /\ i < l => month(i) + S <= month(l)
    <3>1. i \in Int /\ k \in Int /\ l \in Int /\ S * i \in Nat /\ S * k \in Int /\ S * l \in Int
      BY <1>1
    <3> QED
      BY <3>1, MultiplesAreApart
  <2> PICK p \in Nat, q \in Nat, r \in Nat : p = S * i /\ q = S * k /\ r = S * l
    BY <1>1
  <2>2. i < l => B + p + S <= B + r
    BY <2>1
  <2>3. i \in Int /\ (i < l \/ i = l) /\ (i = l => p = r)
    BY <1>1
  <2>4. B + p <= D
    BY <1>1, <2>2, <2>3
  <2>5. /\ month(i) = B + p /\ N = B + q /\ D \in 0 .. Months - 1 /\ Months \in Int
        /\ p \in Nat /\ q \in Nat /\ B \in Nat /\ S \in Nat \ {0} /\ i = k => p = q
    BY <1>1, CalendarIsWhole
  <2>6. (i < k => B + p + S <= B + q) /\ (k < i => B + q + S <= B + p)
    BY <2>1
  <2> HIDE DEF month
  <2>7. i = k => month(i) = N
    BY <2>5
  <2>8. month(i) \in 0 .. Months - 1
    BY ONLY <2>4, <2>5
  <2>9. i < k => month(i) < N
    BY ONLY <2>5, <2>6
  <2>10. k < i => N < month(i)
    BY ONLY <2>5, <2>6
  <2> QED
    BY ONLY <2>7, <2>8, <2>9, <2>10
<1>3. ASSUME NEW i \in 0 .. l, NEW e \in Nominal(rule, month(i))
      PROVE  e \in Int /\ (i <= k => e <= s) /\ (k <= i => s <= e)
  <2> PICK m \in 0 .. Months - 1 : m = month(i)
    BY <1>2
  <2>1. e \in Int /\ (m < N => e < s) /\ (m = N => e = s) /\ (N < m => s < e)
    BY <1>1, DatesOfMonths
  <2> QED
    BY <1>1, <1>2, <2>1
<1>4. \A i \in Int :
          /\ i \in all <=> i \in 0 .. l - z /\ \E e \in Nominal(rule, month(i)) : master <= e /\ e <= d
          /\ i \in before <=> i \in 0 .. k - z /\ \E e \in Nominal(rule, month(i)) : master <= e /\ e <= s
  <2>1. \A i \in Int : month(i) = B + Stride(rule) * i
    OBVIOUS
  <2> HIDE DEF month
  <2>2. \A i \in Int : i \in all <=> i \in 0 .. l - z /\ \E e \in Nominal(rule, month(i)) : master <= e /\ e <= d
    BY <2>1 DEF Visited
  <2>3. \A i \in Int : i \in before <=> i \in 0 .. k - z /\ \E e \in Nominal(rule, month(i)) : master <= e /\ e <= s
    BY <2>1 DEF Visited
  <2> QED
    BY <2>2, <2>3
<1>5. \A j \in Int : j \in after <=> j \in 0 .. l - k /\ \E e \in Nominal(rule, month(k + j)) : s <= e /\ e <= d
  <2>1. \A j \in Int : N + S * j = month(k + j)
    <3>1. \A j \in Int : S * (k + j) = S * k + S * j
      BY <1>1
    <3> QED
      BY <1>1, <3>1
  <2> QED
    BY <2>1 DEF Visited
<1>6. 0 \in after /\ l - k \in after
  <2>1. k + 0 = k /\ k + (l - k) = l /\ 0 \in 0 .. l - k /\ l - k \in 0 .. l - k
    BY <1>1
  <2> QED
    BY <1>1, <1>5, <2>1
<1>7. /\ IsFiniteSet(all) /\ all \in SUBSET Int
      /\ IsFiniteSet(before) /\ before \in SUBSET Int
      /\ IsFiniteSet(after) /\ after \in SUBSET Int
  <2>1. ASSUME NEW n \in Int, NEW T \in SUBSET (0 .. n) PROVE IsFiniteSet(T) /\ T \in SUBSET Int
    <3> DEFINE range == 0 .. n
    <3>1. IsFiniteSet(range) /\ T \in SUBSET range /\ T \in SUBSET Int
      BY FS_Interval
    <3> HIDE DEF range
    <3> QED
      BY ONLY <3>1, FS_Subset
  <2>2. all \in SUBSET (0 .. l - z) /\ before \in SUBSET (0 .. k - z) /\ after \in SUBSET (0 .. l - k)
    BY DEF Visited
  <2>3. l - z \in Int /\ k - z \in Int /\ l - k \in Int
    BY <1>1
  <2> HIDE DEF all, before, after
  <2>4. IsFiniteSet(all) /\ all \in SUBSET Int
    BY ONLY <2>1, <2>2, <2>3
  <2>5. IsFiniteSet(before) /\ before \in SUBSET Int
    BY ONLY <2>1, <2>2, <2>3
  <2>6. IsFiniteSet(after) /\ after \in SUBSET Int
    BY ONLY <2>1, <2>2, <2>3
  <2> QED
    BY ONLY <2>4, <2>5, <2>6
<1> PICK x \in {0, l - k} : x = IF z = 0 THEN 0 ELSE l - k
  OBVIOUS
<1> DEFINE rest == after \ {x}
           moved == {k + j : j \in rest}
<1>8. all = before \union moved /\ before \cap moved = {}
  <2> HIDE DEF month, all, before, after
  <2>1. ASSUME NEW i \in all PROVE i \in before \/ i \in moved
    <3> PICK e \in Nominal(rule, month(i)) : master <= e /\ e <= d
      BY <1>4, <1>7
    <3>1. i \in Int /\ i \in 0 .. l - z
      BY <1>1, <1>4, <1>7
    <3>2. CASE i <= k - z
      BY <1>1, <1>3, <1>4, <3>1, <3>2
    <3>3. CASE ~(i <= k - z)
      <4>1. i - k \in 0 .. l - k /\ i - k # x /\ i - k \in Int /\ k + (i - k) = i /\ k <= i /\ i \in 0 .. l
        BY <1>1, <3>1, <3>3
      <4>2. s <= e
        BY <1>3, <4>1
      <4>3. i - k \in after
        BY <1>5, <4>1, <4>2
      <4> QED
        BY <4>1, <4>3
    <3> QED
      BY <3>2, <3>3
  <2>2. ASSUME NEW i \in before PROVE i \in all
    <3> PICK e \in Nominal(rule, month(i)) : master <= e /\ e <= s
      BY <1>4, <1>7
    <3>1. i \in Int /\ i \in 0 .. k - z
      BY <1>1, <1>4, <1>7
    <3>2. i \in 0 .. l - z /\ i \in 0 .. l
      BY <1>1, <3>1
    <3>3. e <= d
      BY <1>1, <1>3, <3>2
    <3> QED
      BY <1>1, <1>4, <3>2, <3>3
  <2>3. ASSUME NEW j \in rest PROVE k + j \in all /\ k + j \notin before
    <3> PICK e \in Nominal(rule, month(k + j)) : s <= e /\ e <= d
      BY <1>5, <1>7
    <3>1. j \in Int /\ j \in 0 .. l - k /\ j # x
      BY <1>1, <1>5, <1>7
    <3>2. k + j \in 0 .. l - z /\ k + j \in 0 .. l /\ k + j \in Int /\ ~(k + j \in 0 .. k - z)
      BY <1>1, <3>1
    <3>3. master <= e
      BY <1>1, <1>3, <3>2
    <3> QED
      BY <1>1, <1>4, <3>2, <3>3
  <2> QED
    BY <2>1, <2>2, <2>3
<1> HIDE DEF month, all, before, after
<1>9. /\ IsFiniteSet(rest) /\ rest \in SUBSET Int /\ Cardinality(rest) = Cardinality(after) - 1
      /\ Cardinality(after) \in Nat /\ Cardinality(rest) \in Nat
  <2>1. x \in after
    BY <1>6
  <2>2. IsFiniteSet(rest) /\ Cardinality(rest) = Cardinality(after) - 1
    BY <1>7, <2>1, FS_RemoveElement
  <2>3. Cardinality(after) \in Nat /\ Cardinality(rest) \in Nat
    BY <1>7, <2>2, FS_CardinalityType
  <2> QED
    BY <1>7, <2>2, <2>3
<1>10. IsFiniteSet(moved) /\ Cardinality(moved) = Cardinality(rest)
  <2>1. k \in Int
    BY <1>1
  <2> HIDE DEF rest
  <2> QED
    BY ONLY <1>9, <2>1, CountOfShifted
<1>11. Cardinality(all) = Cardinality(before) + Cardinality(moved)
  BY <1>7, <1>8, <1>10, CountOfDisjoint
<1>12. s < d => Cardinality(after) >= 2
  <2>1. ASSUME s < d PROVE \E y \in rest : TRUE
    BY <1>1, <1>6, <2>1
  <2>2. ASSUME s < d PROVE Cardinality(rest) # 0
    BY <1>9, <2>1, <2>2, FS_EmptySet
  <2> QED
    BY <1>9, <2>2
<1>13. Cardinality(before) \in Nat /\ Cardinality(after) \in Nat \ {0}
  BY <1>7, <1>9, FS_CardinalityType
<1>14. Cardinality(all) = Cardinality(before) + (Cardinality(after) - 1)
  BY ONLY <1>9, <1>10, <1>11
<1> QED
  BY <1>12, <1>13, <1>14 DEF all, before, after

\* The ordinal of a date of the rule from its master, and from an earlier date s
\* of the rule.
Adds(rule, master, s, d) ==
    /\ Ordinal(rule, d, master) # NotMember <=> Ordinal(rule, d, s) # NotMember
    /\ Ordinal(rule, d, master) # NotMember =>
        /\ Ordinal(rule, s, master) \in Nat /\ Ordinal(rule, d, s) \in Nat \ {0}
        /\ Ordinal(rule, d, master) = Ordinal(rule, s, master) + (Ordinal(rule, d, s) - 1)
        /\ s < d => Ordinal(rule, d, s) >= 2

\* Ordinals of a monthly or yearly rule add up.
LEMMA CalendarAdds ==
    ASSUME NEW rule \in Rules, rule.kind \in CalendarKinds,
           NEW master \in Days, NEW s \in Days, NEW d \in Days, master <= s, s <= d,
           Ordinal(rule, s, master) # NotMember
    PROVE  Adds(rule, master, s, d)
<1>0. master <= d
  BY DEF Days
<1> PICK k \in Nat : IsAt(rule, master, s, k)
  BY CalendarMember
<1> PICK z \in {0, 1} : z = Late(rule, master)
  BY FirstMonthFacts
<1> PICK S \in Nat \ {0}, B \in Nat : Stride(rule) = S /\ FirstMonth(rule, master) = B
  BY RuleFacts, FirstMonthFacts
<1>1. FirstMonth(rule, s) = MonthOf[s] /\ Late(rule, s) = 0 /\ MonthOf[s] = B + S * k
  BY FirstMonthOfDate DEF IsAt
<1>2. ASSUME NEW l \in Nat, IsAt(rule, master, d, l)
      PROVE  l - k \in Nat /\ IsAt(rule, s, d, l - k)
  <2>1. k <= l
    BY <1>2, PlacesOrdered
  <2>2. l - k \in Nat
    BY <2>1
  <2>3. MonthOf[d] = B + S * l
    BY <1>2 DEF IsAt
  <2>4. S * l = S * k + S * (l - k)
    OBVIOUS
  <2>5. MonthOf[d] = MonthOf[s] + S * (l - k)
    BY <1>1, <2>3, <2>4
  <2> QED
    BY <1>1, <1>2, <2>2, <2>5 DEF IsAt
<1>3. ASSUME NEW j \in Nat, IsAt(rule, s, d, j)
      PROVE  k + j \in Nat /\ IsAt(rule, master, d, k + j)
  <2>1. MonthOf[d] = MonthOf[s] + S * j
    BY <1>1, <1>3 DEF IsAt
  <2>2. S * (k + j) = S * k + S * j
    OBVIOUS
  <2>3. MonthOf[d] = B + S * (k + j)
    BY <1>1, <2>1, <2>2
  <2> QED
    BY <1>3, <2>3 DEF IsAt
<1>4. Ordinal(rule, d, master) # NotMember <=> Ordinal(rule, d, s) # NotMember
  <2>1. Ordinal(rule, d, master) # NotMember <=> \E l \in Nat : IsAt(rule, master, d, l)
    BY <1>0, CalendarMember
  <2>2. Ordinal(rule, d, s) # NotMember <=> \E j \in Nat : IsAt(rule, s, d, j)
    BY CalendarMember
  <2> QED
    BY <1>2, <1>3, <2>1, <2>2
<1>5. ASSUME Ordinal(rule, d, master) # NotMember
      PROVE  /\ Ordinal(rule, s, master) \in Nat /\ Ordinal(rule, d, s) \in Nat \ {0}
             /\ Ordinal(rule, d, master) = Ordinal(rule, s, master) + (Ordinal(rule, d, s) - 1)
             /\ s < d => Ordinal(rule, d, s) >= 2
  <2> PICK l \in Nat : IsAt(rule, master, d, l)
    BY <1>0, <1>5, CalendarMember
  <2>1. Ordinal(rule, d, master) = Cardinality(Visited(rule, B, l - z, master, d))
    BY <1>0, CalendarMember
  <2>2. Ordinal(rule, s, master) = Cardinality(Visited(rule, B, k - z, master, s))
    BY CalendarMember
  <2>3. Ordinal(rule, d, s) = Cardinality(Visited(rule, MonthOf[s], l - k, s, d))
    <3>1. Ordinal(rule, d, s) = Cardinality(Visited(rule, MonthOf[s], (l - k) - 0, s, d))
      BY <1>1, <1>2, CalendarMember
    <3>2. (l - k) - 0 = l - k
      OBVIOUS
    <3> QED
      BY <3>1, <3>2
  <2>4. /\ Cardinality(Visited(rule, B, k - z, master, s)) \in Nat
        /\ Cardinality(Visited(rule, MonthOf[s], l - k, s, d)) \in Nat \ {0}
        /\ Cardinality(Visited(rule, B, l - z, master, d)) =
             Cardinality(Visited(rule, B, k - z, master, s))
                 + (Cardinality(Visited(rule, MonthOf[s], l - k, s, d)) - 1)
        /\ s < d => Cardinality(Visited(rule, MonthOf[s], l - k, s, d)) >= 2
    BY CountsAdd
  <2> QED
    BY ONLY <2>1, <2>2, <2>3, <2>4
<1> QED
  BY <1>4, <1>5 DEF Adds

----
(* Daily rules *)

\* Periods of n days or weeks.
LEMMA PeriodsAgree ==
    ASSUME NEW n \in Nat \ {0}, NEW x \in Nat, NEW y \in Nat, x % n = 0
    PROVE  (x + y) % n = 0 <=> y % n = 0
<1> PICK w \in Int : w = x + y
  OBVIOUS
<1>1. x \in Int /\ x % n = 0 /\ w - x = y
  OBVIOUS
<1>2. w % n = 0 <=> (w - x) % n = 0
  BY ONLY <1>1, QuotientsAdd, n \in Nat \ {0}, w \in Int
<1> QED
  BY <1>1, <1>2

\* How many periods there are.
LEMMA PeriodsOf ==
    ASSUME NEW n \in Nat \ {0}, NEW x \in Nat, x % n = 0
    PROVE  \E p \in Nat : p = x \div n /\ (p = 0 <=> x = 0)
<1> PICK q \in Int : q = x \div n /\ x = n * q
  BY ExactDivision
<1>1. q \in Nat
  BY NaturalQuotient
<1>2. (q = 0 => x = 0) /\ (x = 0 => q = 0)
  OBVIOUS
<1> QED
  BY <1>1, <1>2

\* Whole periods add up.
LEMMA PeriodsAdd ==
    ASSUME NEW n \in Nat \ {0}, NEW x \in Nat, NEW y \in Nat, x % n = 0, y % n = 0
    PROVE  (x + y) \div n = (x \div n) + (y \div n)
<1> PICK w \in Int : w = x + y
  OBVIOUS
<1>1. x \in Int /\ x % n = 0 /\ w - x = y
  OBVIOUS
<1>2. w % n = 0
  BY PeriodsAgree
<1>3. w \div n = (x \div n) + ((w - x) \div n)
  BY ONLY <1>1, <1>2, QuotientsAdd, n \in Nat \ {0}, w \in Int
<1> QED
  BY <1>1, <1>3

\* Ordinals of a daily rule add up.
LEMMA DailyAdds ==
    ASSUME NEW rule \in Rules, rule.kind = "daily",
           NEW master \in Days, NEW s \in Days, NEW d \in Days, master <= s, s <= d,
           Ordinal(rule, s, master) # NotMember
    PROVE  Adds(rule, master, s, d)
<1> PICK I \in Nat \ {0} : rule.interval = I
  BY RuleFacts
<1>1. master \in Int /\ s \in Int /\ d \in Int /\ ~(s < master) /\ ~(d < master) /\ ~(d < s)
  BY DEF Days
<1>2. /\ Ordinal(rule, s, master) = Daily(rule, s, master)
      /\ Ordinal(rule, d, master) = Daily(rule, d, master)
      /\ Ordinal(rule, d, s) = Daily(rule, d, s)
  BY <1>1, Zenon DEF Ordinal
<1> PICK x \in Nat : x = s - master
  BY <1>1
<1> PICK y \in Nat : y = d - s
  BY <1>1
<1>0. d - master = x + y /\ (s < d <=> y # 0)
  BY <1>1
<1>3. /\ Ordinal(rule, s, master) = IF x % I # 0 THEN NotMember ELSE x \div I + 1
      /\ Ordinal(rule, d, master) = IF (x + y) % I # 0 THEN NotMember ELSE (x + y) \div I + 1
      /\ Ordinal(rule, d, s) = IF y % I # 0 THEN NotMember ELSE y \div I + 1
  BY <1>0, <1>2 DEF Daily
<1>4. x % I = 0
  BY <1>3, Zenon
<1>5. (x + y) % I = 0 <=> y % I = 0
  BY ONLY <1>4, PeriodsAgree, I \in Nat \ {0}, x \in Nat, y \in Nat
<1>6. CASE y % I = 0
  <2>1. PICK p \in Nat : p = x \div I
    BY ONLY <1>4, PeriodsOf, I \in Nat \ {0}, x \in Nat
  <2>2. PICK q \in Nat : q = y \div I /\ (q = 0 <=> y = 0)
    BY ONLY <1>6, PeriodsOf, I \in Nat \ {0}, y \in Nat
  <2>3. (x + y) \div I = p + q
    BY ONLY <1>4, <1>6, <2>1, <2>2, PeriodsAdd, I \in Nat \ {0}, x \in Nat, y \in Nat
  <2>4. /\ Ordinal(rule, s, master) = p + 1 /\ Ordinal(rule, d, master) = (p + q) + 1
        /\ Ordinal(rule, d, s) = q + 1
    BY ONLY <1>3, <1>4, <1>5, <1>6, <2>1, <2>2, <2>3
  <2> QED
    BY ONLY <1>0, <2>2, <2>4, p \in Nat, q \in Nat DEF Adds, NotMember
<1>7. CASE y % I # 0
  BY ONLY <1>3, <1>5, <1>7 DEF Adds
<1> QED
  BY <1>6, <1>7

----
(* Weekly rules *)

\* The days of a rule between two dates.
Chosen(rule, from, to) == {d \in from .. to : Weekday(d) \in rule.days}

\* They can be counted.
LEMMA ChosenIsFinite ==
    ASSUME NEW rule, NEW a \in Int, NEW b \in Int
    PROVE  IsFiniteSet(Chosen(rule, a, b)) /\ Cardinality(Chosen(rule, a, b)) \in Nat
<1> DEFINE range == a .. b
<1>1. IsFiniteSet(range) /\ Chosen(rule, a, b) \in SUBSET range
  BY FS_Interval DEF Chosen
<1> HIDE DEF range
<1> QED
  BY <1>1, FS_Subset, FS_CardinalityType

\* A chosen day ends one stretch and begins the next.
LEMMA ChosenSplit ==
    ASSUME NEW rule, NEW a \in Int, NEW b \in Int, NEW c \in Int, a <= b, b <= c,
           Weekday(b) \in rule.days
    PROVE  /\ Cardinality(Chosen(rule, a, c)) =
                 Cardinality(Chosen(rule, a, b)) + (Cardinality(Chosen(rule, b, c)) - 1)
           /\ Cardinality(Chosen(rule, a, b)) >= 1 /\ Cardinality(Chosen(rule, b, c)) >= 1
<1> DEFINE A == Chosen(rule, a, b)
           C == Chosen(rule, b, c)
           rest == C \ {b}
<1>1. b \in A /\ b \in C
  BY DEF Chosen
<1>2. Chosen(rule, a, c) = A \union rest /\ A \cap rest = {}
  BY DEF Chosen
<1>3. /\ IsFiniteSet(A) /\ Cardinality(A) \in Nat
      /\ IsFiniteSet(C) /\ Cardinality(C) \in Nat
  BY ChosenIsFinite
<1> HIDE DEF A, C
<1>4. IsFiniteSet(rest) /\ Cardinality(rest) = Cardinality(C) - 1
  BY <1>1, <1>3, FS_RemoveElement
<1> HIDE DEF rest
<1>5. Cardinality(A \union rest) = Cardinality(A) + Cardinality(rest)
  BY <1>2, <1>3, <1>4, CountOfDisjoint
<1>6. Cardinality(A) # 0 /\ Cardinality(C) # 0
  BY <1>1, <1>3, FS_EmptySet
<1>7. /\ Cardinality(Chosen(rule, a, c)) = Cardinality(A) + (Cardinality(C) - 1)
      /\ Cardinality(A) >= 1 /\ Cardinality(C) >= 1
  BY <1>2, <1>3, <1>4, <1>5, <1>6
<1> QED
  BY <1>7 DEF A, C

\* Every weekday comes once in seven days.
LEMMA ChosenInWeek ==
    ASSUME NEW rule \in Rules, NEW w \in Int
    PROVE  Cardinality(Chosen(rule, w, w + 6)) = Cardinality(rule.days) /\ Cardinality(rule.days) \in Nat
<1> DEFINE week == Chosen(rule, w, w + 6)
           days == rule.days
           f == [d \in week |-> Weekday(d)]
<1>0. days \in SUBSET (0 .. 6)
  BY RuleFacts
<1>1. \A d \in week : d \in Int /\ w <= d /\ d <= w + 6 /\ Weekday(d) \in days
  BY DEF Chosen
<1>2. \A x, y \in Int : w <= x /\ x <= w + 6 /\ w <= y /\ y <= w + 6 /\ Weekday(x) = Weekday(y) => x = y
  BY DEF Weekday
<1>3. ASSUME NEW n \in days PROVE \E d \in week : Weekday(d) = n
  <2>1. n \in 0 .. 6
    BY <1>0
  <2> PICK r \in 0 .. 6 : r = w % 7
    OBVIOUS
  <2> PICK d \in Int : d = w + ((7 + n - r) % 7)
    BY <2>1
  <2>2. w <= d /\ d <= w + 6 /\ d % 7 = n
    BY <2>1
  <2> QED
    BY <2>2 DEF Chosen, Weekday
<1> HIDE DEF week
<1>4. f \in Bijection(week, days)
  <2>1. f \in [week -> days]
    BY <1>1
  <2>2. \A x, y \in week : f[x] = f[y] => x = y
    BY <1>1, <1>2
  <2>3. \A n \in days : \E d \in week : f[d] = n
    BY <1>3
  <2> QED
    BY <2>1, <2>2, <2>3 DEF Bijection, Injection, Surjection, IsInjective
<1>5. IsFiniteSet(week)
  BY ChosenIsFinite DEF week
<1>6. ExistsBijection(week, days)
  BY <1>4 DEF ExistsBijection
<1>7. IsFiniteSet(days) /\ Cardinality(days) = Cardinality(week)
  BY ONLY <1>5, <1>6, FS_Bijection
<1>8. Cardinality(days) \in Nat
  BY ONLY <1>7, FS_CardinalityType
<1> QED
  BY <1>7, <1>8 DEF week

\* The number of the week of a date.
Week(rule, d) == (WeekStart(d, rule.first) - rule.first) \div 7

\* A week is seven days from its first weekday.
LEMMA WeekFacts ==
    ASSUME NEW rule \in Rules, NEW d \in Int
    PROVE  /\ Week(rule, d) \in Int /\ WeekStart(d, rule.first) \in Int
           /\ WeekStart(d, rule.first) = 7 * Week(rule, d) + rule.first
           /\ WeekStart(d, rule.first) <= d /\ d <= WeekStart(d, rule.first) + 6
<1> PICK first \in 0 .. 6 : rule.first = first
  BY RuleFacts
<1> PICK q \in Int, r \in 0 .. 6 : d = 7 * q + r /\ d % 7 = r
  OBVIOUS
<1> PICK w \in Int : w = WeekStart(d, first)
  BY DEF WeekStart, Weekday
<1>1. w = d - ((7 + r - first) % 7)
  BY DEF WeekStart, Weekday
<1>2. w = 7 * (IF r >= first THEN q ELSE q - 1) + first
  <2>1. CASE r >= first
    <3>1. (7 + r - first) % 7 = r - first
      BY <2>1
    <3> QED
      BY <1>1, <2>1, <3>1
  <2>2. CASE r < first
    <3>1. (7 + r - first) % 7 = 7 + r - first
      BY <2>2
    <3> QED
      BY <1>1, <2>2, <3>1
  <2> QED
    BY <2>1, <2>2
<1>3. Week(rule, d) = IF r >= first THEN q ELSE q - 1
  BY <1>2 DEF Week
<1>4. w <= d /\ d <= w + 6
  BY <1>1
<1> QED
  BY <1>2, <1>3, <1>4

\* The ordinal of a weekly rule, by weeks.
LEMMA WeeklyForm ==
    ASSUME NEW rule \in Rules, rule.kind = "weekly",
           NEW master \in Days, NEW d \in Days, master <= d,
           NEW weeks, weeks = Week(rule, d) - Week(rule, master),
           NEW mw, mw = WeekStart(master, rule.first), NEW dw, dw = WeekStart(d, rule.first),
           NEW I, rule.interval = I
    PROVE  Ordinal(rule, d, master) =
              IF Weekday(d) \notin rule.days \/ weeks % I # 0 THEN NotMember
              ELSE IF weeks \div I = 0 THEN Cardinality(Chosen(rule, master, d))
              ELSE Cardinality(Chosen(rule, master, mw + 6))
                     + ((weeks \div I) - 1) * Cardinality(rule.days)
                     + Cardinality(Chosen(rule, dw, d))
<1>1. master \in Int /\ d \in Int /\ ~(d < master)
  BY DEF Days
<1>2. Ordinal(rule, d, master) = Weekly(rule, d, master)
  BY <1>1, Zenon DEF Ordinal
<1>3. (dw - mw) \div 7 = weeks
  <2> PICK u \in Int, v \in Int : u = Week(rule, master) /\ v = Week(rule, d)
    BY <1>1, WeekFacts
  <2> PICK first \in Int : rule.first = first
    BY RuleFacts
  <2>1. mw = 7 * u + first /\ dw = 7 * v + first
    BY <1>1, WeekFacts
  <2>2. dw - mw = 7 * (v - u) /\ v - u \in Int /\ dw - mw \in Int /\ 7 \in Nat \ {0}
    BY <2>1
  <2>3. (dw - mw) \div 7 = v - u
    BY ONLY <2>2, ExactQuotient
  <2> QED
    BY <2>3
<1>4. \A x, y : Chosen(rule, x, y) = {e \in x .. y : Weekday(e) \in rule.days}
  BY DEF Chosen
<1> QED
  BY <1>2, <1>3, <1>4, Zenon DEF Weekly

\* Two different chosen days are two at least.
LEMMA TwoChosen ==
    ASSUME NEW rule, NEW a \in Int, NEW b \in Int, a < b, Weekday(a) \in rule.days, Weekday(b) \in rule.days
    PROVE  Cardinality(Chosen(rule, a, b)) >= 2
<1> DEFINE C == Chosen(rule, a, b)
           rest == C \ {a}
<1>1. a \in C /\ b \in rest
  BY DEF Chosen
<1>2. IsFiniteSet(C) /\ Cardinality(C) \in Nat
  BY ChosenIsFinite
<1> HIDE DEF C
<1>3. IsFiniteSet(rest) /\ Cardinality(rest) = Cardinality(C) - 1
  BY <1>1, <1>2, FS_RemoveElement
<1>4. Cardinality(rest) # 0 /\ Cardinality(rest) \in Nat
  BY <1>1, <1>3, FS_EmptySet, FS_CardinalityType
<1> QED
  BY <1>2, <1>3, <1>4 DEF C

\* Ordinals of a weekly rule add up: the days of the master's week, of whole weeks
\* between, and of the date's own.
LEMMA WeeklyAdds ==
    ASSUME NEW rule \in Rules, rule.kind = "weekly",
           NEW master \in Days, NEW s \in Days, NEW d \in Days, master <= s, s <= d,
           Ordinal(rule, s, master) # NotMember
    PROVE  Adds(rule, master, s, d)
<1> PICK I \in Nat \ {0}, first \in Int : rule.interval = I /\ rule.first = first
  BY RuleFacts
<1>1. master \in Int /\ s \in Int /\ d \in Int /\ master <= d
  BY DEF Days
<1> PICK u \in Int, v \in Int, w \in Int : u = Week(rule, master) /\ v = Week(rule, s) /\ w = Week(rule, d)
  BY <1>1, WeekFacts
<1> PICK mw \in Int : mw = WeekStart(master, first) /\ mw = 7 * u + first /\ mw <= master /\ master <= mw + 6
  BY <1>1, WeekFacts
<1> PICK sw \in Int : sw = WeekStart(s, first) /\ sw = 7 * v + first /\ sw <= s /\ s <= sw + 6
  BY <1>1, WeekFacts
<1> PICK dw \in Int : dw = WeekStart(d, first) /\ dw = 7 * w + first /\ dw <= d /\ d <= dw + 6
  BY <1>1, WeekFacts
<1>0. v - u \in Nat /\ w - v \in Nat
  BY <1>1
<1> PICK x \in Nat, y \in Nat : x = v - u /\ y = w - v
  BY <1>0
<1> DEFINE count(from, to) == Cardinality(Chosen(rule, from, to))
           n == Cardinality(rule.days)
           skipped(k) == (k - 1) * n
<1>w. /\ x = Week(rule, s) - Week(rule, master) /\ y = Week(rule, d) - Week(rule, s)
      /\ x + y = Week(rule, d) - Week(rule, master)
      /\ mw = WeekStart(master, rule.first) /\ sw = WeekStart(s, rule.first) /\ dw = WeekStart(d, rule.first)
      /\ rule.interval = I
  OBVIOUS
<1>2. Ordinal(rule, s, master) =
          IF Weekday(s) \notin rule.days \/ x % I # 0 THEN NotMember
          ELSE IF x \div I = 0 THEN count(master, s)
          ELSE count(master, mw + 6) + skipped(x \div I) + count(sw, s)
  BY ONLY <1>w, rule \in Rules, rule.kind = "weekly", s \in Days, d \in Days, master \in Days, master <= s, s <= d, WeeklyForm
<1>3. Ordinal(rule, d, master) =
          IF Weekday(d) \notin rule.days \/ (x + y) % I # 0 THEN NotMember
          ELSE IF (x + y) \div I = 0 THEN count(master, d)
          ELSE count(master, mw + 6) + skipped((x + y) \div I) + count(dw, d)
  BY ONLY <1>w, <1>1, rule \in Rules, rule.kind = "weekly", master \in Days, d \in Days, WeeklyForm
<1>4. Ordinal(rule, d, s) =
          IF Weekday(d) \notin rule.days \/ y % I # 0 THEN NotMember
          ELSE IF y \div I = 0 THEN count(s, d)
          ELSE count(s, sw + 6) + skipped(y \div I) + count(dw, d)
  BY ONLY <1>w, rule \in Rules, rule.kind = "weekly", s \in Days, d \in Days, master \in Days, master <= s, s <= d, WeeklyForm
<1>5. Weekday(s) \in rule.days /\ x % I = 0
  BY <1>2, Zenon
<1>6. (x + y) % I = 0 <=> y % I = 0
  BY ONLY <1>5, PeriodsAgree, I \in Nat \ {0}, x \in Nat, y \in Nat
<1>s. /\ mw <= master /\ master <= mw + 6 /\ sw <= s /\ s <= sw + 6 /\ dw <= d /\ d <= dw + 6
      /\ master <= s /\ s <= d /\ master <= d /\ sw <= d /\ master <= sw + 6 /\ sw <= sw + 6
      /\ mw \in Int /\ sw \in Int /\ dw \in Int /\ sw + 6 \in Int
      /\ master \in Int /\ s \in Int /\ d \in Int
  BY <1>1
<1>7. CASE Weekday(d) \in rule.days /\ y % I = 0
  <2>p. PICK p \in Nat : p = x \div I /\ (p = 0 <=> x = 0)
    BY ONLY <1>5, PeriodsOf, I \in Nat \ {0}, x \in Nat
  <2>q. PICK q \in Nat : q = y \div I /\ (q = 0 <=> y = 0)
    BY ONLY <1>7, PeriodsOf, I \in Nat \ {0}, y \in Nat
  <2>r. (x + y) \div I = p + q
    BY ONLY <1>5, <1>7, <2>p, <2>q, PeriodsAdd, I \in Nat \ {0}, x \in Nat, y \in Nat
  <2>1. /\ \A a, b \in Int : count(a, b) \in Nat
        /\ n \in Nat /\ count(sw, sw + 6) = n
    <3>1. \A a, b \in Int : count(a, b) \in Nat
      BY ChosenIsFinite
    <3>2. n \in Nat /\ count(sw, sw + 6) = n
      BY ChosenInWeek
    <3> HIDE DEF count, n
    <3> QED
      BY ONLY <3>1, <3>2
  <2>2. /\ count(master, d) = count(master, s) + (count(s, d) - 1)
        /\ count(master, s) >= 1 /\ count(s, d) >= 1
    BY ONLY <1>s, <1>5, ChosenSplit
  <2>3. /\ count(master, sw + 6) = count(master, s) + (count(s, sw + 6) - 1)
        /\ count(s, sw + 6) >= 1
    BY ONLY <1>s, <1>5, ChosenSplit
  <2>4. /\ count(sw, d) = count(sw, s) + (count(s, d) - 1)
        /\ count(sw, s) >= 1
    <3>1. sw \in Int /\ s \in Int /\ d \in Int /\ sw <= s /\ s <= d
      BY <1>s
    <3> QED
      BY ONLY <1>5, <3>1, ChosenSplit
  <2>5. count(sw, sw + 6) = count(sw, s) + (count(s, sw + 6) - 1)
    BY ONLY <1>s, <1>5, ChosenSplit
  <2>6. count(dw, d) >= 1
    <3>1. d <= d
      BY <1>s
    <3> QED
      BY ONLY <1>s, <1>7, <3>1, ChosenSplit
  <2>7. s < d => count(s, d) >= 2
    BY ONLY <1>s, <1>5, <1>7, TwoChosen
  <2>8. (p = 0 => mw = sw) /\ (q = 0 => sw = dw)
    BY <2>p, <2>q
  <2> HIDE DEF count, n
  <2>9. /\ Ordinal(rule, s, master) =
              IF p = 0 THEN count(master, s) ELSE count(master, mw + 6) + skipped(p) + count(sw, s)
        /\ Ordinal(rule, d, master) =
              IF p + q = 0 THEN count(master, d) ELSE count(master, mw + 6) + skipped(p + q) + count(dw, d)
        /\ Ordinal(rule, d, s) =
              IF q = 0 THEN count(s, d) ELSE count(s, sw + 6) + skipped(q) + count(dw, d)
    BY ONLY <1>2, <1>3, <1>4, <1>5, <1>6, <1>7, <2>p, <2>q, <2>r
  <2>10. /\ \A k \in Nat \ {0} : skipped(k) \in Nat
         /\ p # 0 /\ q # 0 => skipped(p + q) = skipped(p) + n + skipped(q)
         /\ skipped(1) = 0
    <3>1. n \in Nat
      BY <2>1
    <3>2. \A k \in Nat \ {0} : (k - 1) * n \in Nat
      BY <3>1
    <3>3. (p + q - 1) * n = (p - 1) * n + n + (q - 1) * n
      BY <3>1
    <3> QED
      BY <3>1, <3>2, <3>3
  <2> HIDE DEF skipped
  <2>11. /\ count(master, s) \in Nat /\ count(s, d) \in Nat /\ count(master, d) \in Nat
         /\ count(master, mw + 6) \in Nat /\ count(sw, s) \in Nat /\ count(dw, d) \in Nat
         /\ count(s, sw + 6) \in Nat /\ count(sw, d) \in Nat
    BY <1>1, <2>1
  <2>t. p \in Nat /\ q \in Nat /\ p + q \in Nat
    OBVIOUS
  <2>12. /\ Ordinal(rule, s, master) \in Nat /\ Ordinal(rule, d, s) \in Nat \ {0}
         /\ Ordinal(rule, d, master) \in Nat
         /\ Ordinal(rule, d, master) = Ordinal(rule, s, master) + (Ordinal(rule, d, s) - 1)
         /\ s < d => Ordinal(rule, d, s) >= 2
    <3>1. CASE p = 0 /\ q = 0
      BY ONLY <2>t, <2>2, <2>7, <2>9, <2>11, <3>1
    <3>2. CASE p = 0 /\ q # 0
      <4>1. skipped(p + q) = skipped(q)
        BY ONLY <2>t, <3>2
      <4> QED
       BY ONLY <4>1, <2>t, <2>3, <2>6, <2>8, <2>9, <2>10, <2>11, <3>2
    <3>3. CASE p # 0 /\ q = 0
      BY ONLY <2>t, <2>2, <2>4, <2>7, <2>8, <2>9, <2>10, <2>11, <3>3
    <3>4. CASE p # 0 /\ q # 0
      <4>1. skipped(p) \in Nat /\ skipped(q) \in Nat /\ p + q # 0
        BY ONLY <2>t, <2>10, <3>4
      <4>2. skipped(p + q) = skipped(p) + (count(sw, s) + (count(s, sw + 6) - 1)) + skipped(q)
        BY ONLY <2>1, <2>5, <2>10, <3>4
      <4>3. /\ Ordinal(rule, s, master) = count(master, mw + 6) + skipped(p) + count(sw, s)
            /\ Ordinal(rule, d, master) = count(master, mw + 6) + skipped(p + q) + count(dw, d)
            /\ Ordinal(rule, d, s) = count(s, sw + 6) + skipped(q) + count(dw, d)
        BY ONLY <2>9, <3>4, <4>1
      <4> QED
        BY ONLY <2>3, <2>6, <2>11, <4>1, <4>2, <4>3
    <3> QED
      BY <3>1, <3>2, <3>3, <3>4
  <2> QED
    BY <2>12 DEF Adds, NotMember
<1>8. CASE ~(Weekday(d) \in rule.days /\ y % I = 0)
  BY <1>3, <1>4, <1>6, <1>8 DEF Adds
<1> QED
  BY <1>7, <1>8

\* Counting goes on from any date of the rule as from its master.
LEMMA OrdinalsAdd ==
    ASSUME NEW rule \in Rules, NEW master \in Days, NEW s \in Days, NEW d \in Days, master <= s, s <= d,
           Ordinal(rule, s, master) # NotMember
    PROVE  Adds(rule, master, s, d)
<1>1. rule.kind \in {"daily", "weekly"} \union CalendarKinds
  BY RuleFacts DEF RuleKinds, CalendarKinds
<1> QED
  BY <1>1, DailyAdds, WeeklyAdds, CalendarAdds

\* An ordinal is a number, or there is none.
LEMMA OrdinalType ==
    ASSUME NEW rule \in Rules, NEW master \in Days, NEW d \in Days
    PROVE  Ordinal(rule, d, master) \in Nat \union {NotMember}
<1>1. CASE d < master
  BY <1>1 DEF Ordinal
<1>2. CASE ~(d < master)
  <2>1. master <= d /\ d <= d /\ d \in Int
    BY <1>2 DEF Days
  <2>2. CASE Ordinal(rule, d, master) # NotMember
    BY <2>1, <2>2, OrdinalsAdd DEF Adds
  <2> QED
    BY <2>2
<1> QED
  BY <1>1, <1>2

----
(* Slots and dates *)

\* Whether d is the date of the slot s.
IsDateOf(series, s, d) ==
    /\ d \in Days /\ s \in Int
    /\ Produced(series, d)
    /\ ~Odd(series.zone, LocalStart(series, d))
    /\ s = ToUtc(series.zone, LocalStart(series, d))
    /\ ToLocal(series.zone, s) = LocalStart(series, d)
    /\ DateOf(ToLocal(series.zone, s)) = d
    /\ LocalStart(series, d) \in Int /\ DateOf(LocalStart(series, d)) = d

\* Clocks differ by at most half a day.
LEMMA ClockFacts ==
    ASSUME NEW zone \in LocalZones, NEW i \in Int, NEW j \in Int
    PROVE  /\ ToLocal(zone, i) \in Int
           /\ ToLocal(zone, i) - i <= ToLocal(zone, j) - j + 12
<1> PICK standard \in Int, daylight \in Int :
        zone.standard = standard /\ zone.daylight = daylight /\ daylight - standard \in -12 .. 12
  BY DEF LocalZones
<1>1. \A k \in Int : ToLocal(zone, k) \in {k + standard, k + daylight}
  BY DEF ToLocal
<1>2. ToLocal(zone, i) \in {i + standard, i + daylight} /\ ToLocal(zone, j) \in {j + standard, j + daylight}
  BY <1>1
<1> QED
  BY <1>2

\* A local time that is not odd has one instant.
LEMMA InstantFacts ==
    ASSUME NEW zone \in LocalZones, NEW local \in Int, ~Odd(zone, local)
    PROVE  /\ ToUtc(zone, local) \in Int
           /\ ToLocal(zone, ToUtc(zone, local)) = local
           /\ \A i \in Int : ToLocal(zone, i) = local => i = ToUtc(zone, local)
<1> PICK standard \in Int, daylight \in Int : zone.standard = standard /\ zone.daylight = daylight
  BY DEF LocalZones
<1>1. IsFiniteSet({local - standard, local - daylight})
  <2>1. IsFiniteSet({local - standard}) /\ {local - standard} \union {local - daylight} = {local - standard, local - daylight}
    BY FS_Singleton
  <2> QED
    BY <2>1, FS_AddElement
<1>2. IsFiniteSet(Instants(zone, local)) /\ Instants(zone, local) \subseteq Int
  BY <1>1, FS_Subset DEF Instants
<1>3. PICK x : Instants(zone, local) = {x}
  BY <1>2, FS_Singleton DEF Odd
<1>4. ToUtc(zone, local) \in Instants(zone, local)
  BY <1>3 DEF ToUtc
<1>5. ASSUME NEW i \in Int, ToLocal(zone, i) = local PROVE i \in Instants(zone, local)
  BY <1>5 DEF Instants, ToLocal
<1> QED
  BY <1>2, <1>3, <1>4, <1>5 DEF Instants

\* The local start of a date is on it, at the time of the master.
LEMMA DateFacts ==
    ASSUME NEW series, IsSeries(series), NEW d \in Days
    PROVE  /\ LocalStart(series, d) \in Int /\ DateOf(LocalStart(series, d)) = d
           /\ TimeOf(LocalStart(series, d)) = TimeOf(LocalMaster(series))
           /\ LocalMaster(series) \in Int /\ WallDuration(series) \in Int
<1>1. LocalMaster(series) \in Int /\ WallDuration(series) \in Int
  <2>1. series.zone \in LocalZones /\ series.start \in Int /\ series.end \in Int
    BY DEF IsSeries
  <2> QED
    BY <2>1, ClockFacts DEF LocalMaster, WallDuration
<1>2. TimeOf(LocalMaster(series)) \in 0 .. 23
  BY <1>1 DEF TimeOf, Day
<1>3. d \in Nat
  BY DEF Days
<1>4. PICK t \in 0 .. 23 : t = TimeOf(LocalMaster(series))
  BY <1>2
<1>5. LocalStart(series, d) = d * 24 + t
  BY <1>4 DEF LocalStart, Day
<1>6. (d * 24 + t) \div 24 = d /\ (d * 24 + t) % 24 = t
  BY <1>3
<1> QED
  BY <1>1, <1>3, <1>4, <1>5, <1>6 DEF DateOf, TimeOf, Day

\* A date that the rule produces has a slot, unless its local start is odd.
LEMMA ProducedIsSlot ==
    ASSUME NEW series, IsSeries(series), NEW d \in Days,
           Produced(series, d), ~Odd(series.zone, LocalStart(series, d))
    PROVE  IsDateOf(series, ToUtc(series.zone, LocalStart(series, d)), d)
<1>1. series.zone \in LocalZones
  BY DEF IsSeries
<1> QED
  BY <1>1, DateFacts, InstantFacts DEF IsDateOf

\* A local start of a date that the rule produces.
IsPoint(series, s) ==
    LET local == ToLocal(series.zone, s)
    IN  /\ DateOf(local) \in Days /\ Produced(series, DateOf(local))
        /\ TimeOf(local) = TimeOf(LocalMaster(series)) /\ ~Odd(series.zone, local)

\* A slot is a point that the end date allows.
LEMMA SlotIsPoint ==
    ASSUME NEW series, series.rule \in Rules, DateOf(LocalMaster(series)) \in Days, NEW s
    PROVE  IsSlot(series, s) <=> IsPoint(series, s) /\ Before(series.rule, s)
<1> DEFINE d == DateOf(ToLocal(series.zone, s))
           ordinal == Ordinal(series.rule, d, DateOf(LocalMaster(series)))
<1>1. d \in Days => ordinal # Stale
  BY OrdinalType DEF NotMember, Stale
<1> QED
  BY <1>1 DEF IsSlot, ValidateMember, IsPoint, Produced

\* A point is the slot of its date.
LEMMA PointHasDate ==
    ASSUME NEW series, IsSeries(series), NEW s \in Int, IsPoint(series, s)
    PROVE  IsDateOf(series, s, DateOf(ToLocal(series.zone, s)))
<1> DEFINE local == ToLocal(series.zone, s)
           d == DateOf(local)
<1>1. /\ d \in Days /\ Produced(series, d)
      /\ TimeOf(local) = TimeOf(LocalMaster(series)) /\ ~Odd(series.zone, local)
  BY DEF IsPoint
<1>2. series.zone \in LocalZones
  BY DEF IsSeries
<1>3. local \in Int
  BY <1>2, ClockFacts
<1>4. LocalStart(series, d) = local
  <2> PICK l \in Int : l = local
    BY <1>3
  <2>1. (l \div 24) * 24 + (l % 24) = l
    OBVIOUS
  <2>2. d = l \div 24 /\ TimeOf(local) = l % 24
    BY DEF DateOf, TimeOf, Day
  <2>3. LocalStart(series, d) = d * 24 + TimeOf(local)
    BY <1>1 DEF LocalStart, Day
  <2> QED
    BY ONLY <2>1, <2>2, <2>3, l = local
<1>5. s = ToUtc(series.zone, local)
  BY <1>1, <1>2, <1>3, InstantFacts
<1> QED
  BY <1>1, <1>3, <1>4, <1>5 DEF IsDateOf

\* Occurrences keep the order of their dates: clocks never change by a day.
LEMMA DatesOrdered ==
    ASSUME NEW series, IsSeries(series), NEW s, NEW d, IsDateOf(series, s, d),
           NEW t, NEW e, IsDateOf(series, t, e)
    PROVE  (d < e <=> s < t) /\ (d = e <=> s = t)
<1>0. series.zone \in LocalZones
  BY DEF IsSeries
<1> PICK m \in Int : m = TimeOf(LocalMaster(series))
  <2>1. LocalMaster(series) \in Int
    BY DateFacts DEF IsDateOf
  <2> QED
    BY <2>1 DEF TimeOf, Day
<1>1. /\ s \in Int /\ t \in Int /\ d \in Int /\ e \in Int
      /\ ToLocal(series.zone, s) = d * 24 + m /\ ToLocal(series.zone, t) = e * 24 + m
  BY DEF IsDateOf, Days, LocalStart, Day
<1>2. /\ ToLocal(series.zone, s) - s <= ToLocal(series.zone, t) - t + 12
      /\ ToLocal(series.zone, t) - t <= ToLocal(series.zone, s) - s + 12
  BY <1>0, <1>1, ClockFacts
<1>3. d = e => s = t
  BY DEF IsDateOf
<1> QED
  BY <1>1, <1>2, <1>3

\* ... and the other way round.
LEMMA DateIsPoint ==
    ASSUME NEW series, IsSeries(series), NEW d, NEW s, IsDateOf(series, s, d)
    PROVE  IsPoint(series, s)
BY DateFacts DEF IsDateOf, IsPoint

\* The slots of a series.
LEMMA SeriesSlots ==
    ASSUME NEW series, IsSeries(series), NEW s
    PROVE  IsSlot(series, s) <=> IsPoint(series, s) /\ Before(series.rule, s)
BY SlotIsPoint DEF IsSeries

----
(* Splits *)

\* Neither a count nor an end date changes the ordinals.
SamePattern(p, q) ==
    /\ p.kind = q.kind /\ p.interval = q.interval /\ p.first = q.first /\ p.days = q.days
    /\ p.day = q.day /\ p.nth = q.nth /\ p.month = q.month

\* Rules of the same pattern count alike.
LEMMA SameOrdinals ==
    ASSUME NEW p, NEW q, SamePattern(p, q), NEW d, NEW master
    PROVE  Ordinal(p, d, master) = Ordinal(q, d, master)
<1>0. /\ p.kind = q.kind /\ p.interval = q.interval /\ p.first = q.first /\ p.days = q.days
      /\ p.day = q.day /\ p.nth = q.nth /\ p.month = q.month
  BY DEF SamePattern
<1>1. \A k : Nominal(p, k) = Nominal(q, k)
  BY <1>0 DEF Nominal
<1>2. ASSUME NEW yearly \in BOOLEAN
      PROVE  CalendarOrdinal(p, d, master, yearly) = CalendarOrdinal(q, d, master, yearly)
  <2> DEFINE stride(r) == IF yearly THEN 12 * r.interval ELSE r.interval
             cycles(r) == (MonthOf[d] - MonthOf[master]) \div stride(r)
             visited(r, k) == IF yearly THEN 12 * (k \div 12) + r.month - 1 ELSE k
             dates(r, k) == Nominal(r, visited(r, k))
             indices(r) == {index \in 0 .. cycles(r) :
                              \E e \in dates(r, MonthOf[master] + index * stride(r)) : master <= e /\ e <= d}
  <2>1. stride(p) = stride(q) /\ cycles(p) = cycles(q)
    BY <1>0
  <2>2. \A k : dates(p, k) = dates(q, k)
    <3>1. \A k : visited(p, k) = visited(q, k)
      BY <1>0
    <3> HIDE DEF visited
    <3> QED
      BY <1>1, <3>1
  <2>3. \A r : CalendarOrdinal(r, d, master, yearly) =
            IF d \notin dates(r, MonthOf[d]) THEN NotMember ELSE Cardinality(indices(r))
    BY Zenon DEF CalendarOrdinal
  <2>4. indices(p) = indices(q)
    <3> HIDE DEF dates, cycles, stride
    <3> QED
      BY <2>1, <2>2
  <2> HIDE DEF dates, indices
  <2>5. dates(p, MonthOf[d]) = dates(q, MonthOf[d])
    BY <2>2
  <2>6. /\ CalendarOrdinal(p, d, master, yearly) =
              IF d \notin dates(p, MonthOf[d]) THEN NotMember ELSE Cardinality(indices(p))
        /\ CalendarOrdinal(q, d, master, yearly) =
              IF d \notin dates(q, MonthOf[d]) THEN NotMember ELSE Cardinality(indices(q))
    BY <2>3
  <2> QED
    BY <2>4, <2>5, <2>6
<1>3. Daily(p, d, master) = Daily(q, d, master)
  BY <1>0 DEF Daily
<1>4. Weekly(p, d, master) = Weekly(q, d, master)
  BY <1>0, Zenon DEF Weekly
<1>5. Monthly(p, d, master) = Monthly(q, d, master) /\ Yearly(p, d, master) = Yearly(q, d, master)
  BY <1>0, <1>2 DEF Monthly, Yearly
<1> DEFINE choice(kind, daily, weekly, monthly, yearly) ==
               IF d < master THEN NotMember
               ELSE CASE kind = "daily" -> daily
                      [] kind = "weekly" -> weekly
                      [] kind \in {"monthly", "monthlyNth"} -> monthly
                      [] kind \in {"yearly", "yearlyNth"} -> yearly
<1>6. \A r : Ordinal(r, d, master) =
          choice(r.kind, Daily(r, d, master), Weekly(r, d, master), Monthly(r, d, master), Yearly(r, d, master))
  BY Zenon DEF Ordinal
<1> HIDE DEF choice
<1> QED
  BY <1>0, <1>3, <1>4, <1>5, <1>6, Zenon

\* The series that ends before the split.
LEMMA OldFields ==
    ASSUME NEW series, IsSeries(series), NEW original, NEW k, k = ValidateMember(series, original)
    PROVE  LET old == Truncated(series, original)
           IN  /\ SamePattern(old.rule, series.rule) /\ old.rule.count = k - 1 /\ old.rule.until = Never
               /\ old.zone = series.zone /\ old.start = series.start /\ old.end = series.end
               /\ old.exceptions = {x \in series.exceptions : x.original < original}
<1> PICK rule \in Rules : rule = series.rule
  BY DEF IsSeries
<1> QED
  BY DEF IsSeries, Truncated, Rules, SamePattern

\* The series that begins with it.
LEMMA NewFields ==
    ASSUME NEW series, IsSeries(series), NEW original, NEW k, k = ValidateMember(series, original)
    PROVE  LET new == NewSeries(series, original)
           IN  /\ SamePattern(new.rule, series.rule) /\ new.rule.until = series.rule.until
               /\ new.rule.count = IF series.rule.count = Never THEN Never ELSE CountFrom(series.rule.count, k)
               /\ new.zone = series.zone /\ new.start = original /\ new.end = BaseOccurrence(series, original).end
               /\ new.exceptions = {x \in series.exceptions : x.original >= original}
<1> PICK rule \in Rules : rule = series.rule
  BY DEF IsSeries
<1> QED
  BY DEF IsSeries, NewSeries, Rules, SamePattern

\* The ordinal that the split begins at.
SplitAt(series, original, date, k) ==
    /\ IsDateOf(series, original, date) /\ Before(series.rule, original)
    /\ k \in Int /\ k > 1
    /\ k = ValidateMember(series, original)
    /\ k = Ordinal(series.rule, date, DateOf(LocalMaster(series)))
    /\ Allows(series.rule, k)
    /\ ~Odd(series.zone, ToLocal(series.zone, original) + WallDuration(series))

\* A split that is accepted has such an ordinal.
LEMMA SplitOrdinal ==
    ASSUME NEW series, IsSeries(series), NEW original \in Int, IsSlot(series, original),
           AcceptsSplit(series, original)
    PROVE  SplitAt(series, original, DateOf(ToLocal(series.zone, original)), ValidateMember(series, original))
<1> DEFINE date == DateOf(ToLocal(series.zone, original))
           master == DateOf(LocalMaster(series))
           k == ValidateMember(series, original)
<1>1. IsPoint(series, original) /\ Before(series.rule, original)
  BY SeriesSlots
<1>2. IsDateOf(series, original, date)
  BY <1>1, PointHasDate
<1>3. k > 1 /\ HasEnd(series, original)
  BY DEF AcceptsSplit
<1>4. k = Ordinal(series.rule, date, master)
  BY DEF IsSlot, ValidateMember
<1>5. date \in Days /\ Allows(series.rule, k)
  BY <1>2, <1>4 DEF IsDateOf, Produced
<1>6. k \in Nat \union {NotMember}
  BY <1>4, <1>5, OrdinalType DEF IsSeries
<1> QED
  BY <1>1, <1>2, <1>3, <1>4, <1>5, <1>6 DEF SplitAt, HasEnd, NotMember

\* The old series has the slots before the split.
LEMMA OldSlots ==
    ASSUME NEW series, IsSeries(series), NEW original, NEW date, NEW k, SplitAt(series, original, date, k),
           NEW t \in Int
    PROVE  IsSlot(Truncated(series, original), t) <=> IsSlot(series, t) /\ t < original
<1> DEFINE old == Truncated(series, original)
           rule == series.rule
           master == DateOf(LocalMaster(series))
           d == DateOf(ToLocal(series.zone, t))
           nth(day) == Ordinal(rule, day, master)
<1>1. /\ SamePattern(old.rule, rule) /\ old.rule.count = k - 1 /\ old.rule.until = Never
      /\ old.zone = series.zone /\ old.start = series.start
  BY OldFields DEF SplitAt
<1>2. /\ IsDateOf(series, original, date) /\ date \in Days /\ master \in Days /\ rule \in Rules
      /\ k \in Int /\ k > 1 /\ k = nth(date) /\ Allows(rule, k) /\ Before(rule, original)
      /\ k # NotMember /\ master <= date /\ original \in Int
  <2>1. date \in Days /\ master \in Days /\ rule \in Rules /\ original \in Int
    BY DEF SplitAt, IsDateOf, IsSeries
  <2>2. k \in Int /\ k > 1 /\ k = nth(date)
    BY DEF SplitAt
  <2>3. k # NotMember
    BY <2>2 DEF NotMember
  <2>4. master <= date
    BY <2>1, <2>2, <2>3 DEF Ordinal, Days
  <2> QED
    BY <2>1, <2>2, <2>3, <2>4 DEF SplitAt
<1>3. IsSlot(old, t) <=> d \in Days /\ nth(d) # NotMember /\ nth(d) <= k - 1
                         /\ TimeOf(ToLocal(series.zone, t)) = TimeOf(LocalMaster(series))
                         /\ ~Odd(series.zone, ToLocal(series.zone, t))
  <2>1. LocalMaster(old) = LocalMaster(series)
    BY <1>1 DEF LocalMaster
  <2>2. Ordinal(old.rule, d, master) = nth(d)
    BY <1>1, SameOrdinals
  <2>3. k - 1 # Never
    BY <1>2 DEF Never
  <2>4. Allows(old.rule, nth(d)) <=> nth(d) <= k - 1
    BY <1>1, <2>3 DEF Allows
  <2>5. Before(old.rule, t)
    BY <1>1 DEF Before
  <2>6. d \in Days => nth(d) # Stale
    BY <1>2, OrdinalType DEF NotMember, Stale
  <2> HIDE DEF old
  <2> QED
    BY <1>1, <2>1, <2>2, <2>4, <2>5, <2>6 DEF IsSlot, ValidateMember
<1>4. IsSlot(series, t) <=> IsPoint(series, t) /\ Before(rule, t)
  BY SeriesSlots
<1>5. d \in Days => d \in Int /\ date \in Int /\ master \in Int
  BY <1>2 DEF Days
<1>6. ASSUME d \in Days, nth(d) # NotMember PROVE nth(d) <= k - 1 <=> d < date
  <2>0. master <= d
    BY <1>5, <1>6 DEF Ordinal
  <2>1. CASE d < date
    <3>1. Adds(rule, master, d, date)
      BY <1>2, <1>5, <1>6, <2>0, <2>1, OrdinalsAdd
    <3>2. nth(d) \in Nat /\ Ordinal(rule, date, d) \in Nat /\ Ordinal(rule, date, d) >= 2
          /\ k = nth(d) + (Ordinal(rule, date, d) - 1)
      BY <1>2, <2>1, <3>1 DEF Adds
    <3> QED
      BY <1>2, <2>1, <3>2
  <2>2. CASE ~(d < date)
    <3>1. Adds(rule, master, date, d)
      BY <1>2, <1>5, <1>6, <2>2, OrdinalsAdd
    <3>2. Ordinal(rule, d, date) \in Nat \ {0} /\ nth(d) = k + (Ordinal(rule, d, date) - 1)
      BY <1>2, <1>6, <3>1 DEF Adds
    <3> QED
      BY <1>2, <2>2, <3>2
  <2> QED
    BY <2>1, <2>2
<1>7. ASSUME IsPoint(series, t) PROVE t < original <=> d < date
  <2>1. IsDateOf(series, t, d)
    BY <1>7, PointHasDate
  <2> QED
    BY <1>2, <2>1, DatesOrdered
<1>8. ASSUME IsSlot(old, t) PROVE IsSlot(series, t) /\ t < original
  <2>1. /\ d \in Days /\ nth(d) # NotMember /\ nth(d) <= k - 1
        /\ nth(d) \in Nat \union {NotMember}
    BY <1>2, <1>3, <1>8, OrdinalType
  <2>2. Allows(rule, nth(d))
    <3>1. rule.count \in Int
      BY <1>2, RuleFacts
    <3> QED
      BY <1>2, <2>1, <3>1 DEF Allows, NotMember
  <2>3. IsPoint(series, t)
    BY <1>3, <1>8, <2>1, <2>2 DEF IsPoint, Produced
  <2>4. t < original
    BY <1>6, <1>7, <2>1, <2>3
  <2>5. Before(rule, t)
    <3>1. rule.until \in Int
      BY <1>2, RuleFacts
    <3> QED
      BY <1>2, <2>4, <3>1 DEF Before
  <2> QED
    BY <1>4, <2>3, <2>4, <2>5
<1>9. ASSUME IsSlot(series, t), t < original PROVE IsSlot(old, t)
  <2>1. IsPoint(series, t)
    BY <1>4, <1>9
  <2>2. /\ d \in Days /\ nth(d) # NotMember
        /\ TimeOf(ToLocal(series.zone, t)) = TimeOf(LocalMaster(series))
        /\ ~Odd(series.zone, ToLocal(series.zone, t))
    BY <2>1 DEF IsPoint, Produced
  <2>3. d < date
    BY <1>7, <1>9, <2>1
  <2> QED
    BY <1>3, <1>6, <2>2, <2>3
<1> QED
  BY <1>8, <1>9

\* The new series has the slots from the split on, at the same times.
LEMMA NewSlots ==
    ASSUME NEW series, IsSeries(series), NEW original, NEW date, NEW k, SplitAt(series, original, date, k),
           NEW t \in Int
    PROVE  /\ IsSlot(NewSeries(series, original), t) <=> IsSlot(series, t) /\ original <= t
           /\ BaseOccurrence(NewSeries(series, original), t) = BaseOccurrence(series, t)
<1> DEFINE new == NewSeries(series, original)
           rule == series.rule
           master == DateOf(LocalMaster(series))
           d == DateOf(ToLocal(series.zone, t))
           nth(day) == Ordinal(rule, day, master)
           left(day) == Ordinal(rule, day, date)
<1>1. /\ SamePattern(new.rule, rule) /\ new.rule.until = rule.until
      /\ new.rule.count = IF rule.count = Never THEN Never ELSE CountFrom(rule.count, k)
      /\ new.zone = series.zone /\ new.start = original /\ new.end = BaseOccurrence(series, original).end
  <2>1. k = ValidateMember(series, original)
    BY DEF SplitAt
  <2> QED
    BY ONLY <2>1, IsSeries(series), NewFields
<1>2. /\ IsDateOf(series, original, date) /\ date \in Days /\ master \in Days /\ rule \in Rules
      /\ k \in Int /\ k > 1 /\ k = nth(date) /\ Allows(rule, k) /\ Before(rule, original)
      /\ k # NotMember /\ master <= date /\ original \in Int /\ series.zone \in LocalZones
  <2>1. date \in Days /\ master \in Days /\ rule \in Rules /\ original \in Int /\ series.zone \in LocalZones
    BY DEF SplitAt, IsDateOf, IsSeries
  <2>2. k \in Int /\ k > 1 /\ k = nth(date)
    BY DEF SplitAt
  <2>3. k # NotMember
    BY <2>2 DEF NotMember
  <2>4. master <= date
    BY <2>1, <2>2, <2>3 DEF Ordinal, Days
  <2> QED
    BY <2>1, <2>2, <2>3, <2>4 DEF SplitAt
<1>m. LocalMaster(new) = ToLocal(series.zone, original) /\ DateOf(LocalMaster(new)) = date
      /\ TimeOf(LocalMaster(new)) = TimeOf(LocalMaster(series))
  <2>1. LocalMaster(new) = ToLocal(series.zone, original)
    BY <1>1 DEF LocalMaster
  <2> QED
    BY <1>2, <2>1, DateFacts DEF IsDateOf
<1> PICK total \in Int : total = rule.count
  BY <1>2, RuleFacts
<1>3. IsSlot(new, t) <=> d \in Days /\ left(d) # NotMember /\ (total = Never \/ left(d) <= total - k + 1)
                         /\ TimeOf(ToLocal(series.zone, t)) = TimeOf(LocalMaster(series))
                         /\ ~Odd(series.zone, ToLocal(series.zone, t))
                         /\ Before(rule, t)
  <2>2. Ordinal(new.rule, d, date) = left(d)
    BY <1>1, SameOrdinals
  <2>3. total # Never => total >= k /\ total - k + 1 # Never
    BY <1>2 DEF Never, Allows
  <2>4. Allows(new.rule, left(d)) <=> total = Never \/ left(d) <= total - k + 1
    BY <1>1, <2>3 DEF Allows, CountFrom
  <2>5. Before(new.rule, t) <=> Before(rule, t)
    BY <1>1 DEF Before
  <2>6. d \in Days => left(d) # Stale
    BY <1>2, OrdinalType DEF NotMember, Stale
  <2> HIDE DEF new, left
  <2> QED
    BY <1>1, <1>m, <2>2, <2>4, <2>5, <2>6 DEF IsSlot, ValidateMember, left
<1>4. IsSlot(series, t) <=> IsPoint(series, t) /\ Before(rule, t)
  BY SeriesSlots
<1>5. d \in Days => d \in Int /\ date \in Int /\ master \in Int
  BY <1>2 DEF Days
<1>6. ASSUME d \in Days, date <= d
      PROVE  /\ left(d) # NotMember <=> nth(d) # NotMember
             /\ left(d) # NotMember =>
                   (Allows(rule, nth(d)) <=> total = Never \/ left(d) <= total - k + 1)
  <2>1. Adds(rule, master, date, d)
    BY <1>2, <1>6, OrdinalsAdd
  <2>2. left(d) # NotMember => left(d) \in Nat \ {0} /\ nth(d) = k + (left(d) - 1)
    BY <1>2, <2>1 DEF Adds
  <2>3. left(d) # NotMember => (nth(d) <= total <=> left(d) <= total - k + 1)
    BY <1>2, <2>2
  <2> QED
    BY <2>1, <2>3 DEF Adds, Allows
<1>7. ASSUME IsPoint(series, t) PROVE original <= t <=> date <= d
  <2>1. IsDateOf(series, t, d)
    BY <1>7, PointHasDate
  <2>2. (t < original <=> d < date) /\ t \in Int /\ d \in Int /\ date \in Int
    BY <1>2, <2>1, DatesOrdered DEF IsDateOf, Days
  <2> QED
    BY <1>2, <2>2
<1>8. ASSUME IsSlot(new, t) PROVE IsSlot(series, t) /\ original <= t
  <2>1. d \in Days /\ date <= d
    BY <1>3, <1>5, <1>8 DEF Ordinal
  <2>2. Produced(series, d)
    BY <1>3, <1>6, <1>8, <2>1 DEF Produced
  <2>3. IsPoint(series, t) /\ Before(rule, t)
    BY <1>3, <1>8, <2>2 DEF IsPoint
  <2> QED
    BY <1>4, <1>7, <2>1, <2>3
<1>9. ASSUME IsSlot(series, t), original <= t PROVE IsSlot(new, t)
  <2>1. IsPoint(series, t) /\ Before(rule, t)
    BY <1>4, <1>9
  <2>2. /\ d \in Days /\ nth(d) # NotMember /\ Allows(rule, nth(d))
        /\ TimeOf(ToLocal(series.zone, t)) = TimeOf(LocalMaster(series))
        /\ ~Odd(series.zone, ToLocal(series.zone, t))
    BY <2>1 DEF IsPoint, Produced
  <2>3. date <= d
    BY <1>7, <1>9, <2>1
  <2> QED
    BY <1>3, <1>6, <2>1, <2>2, <2>3
<1>10. BaseOccurrence(new, t) = BaseOccurrence(series, t)
  <2>1. ToLocal(series.zone, original) + WallDuration(series) \in Int
    BY <1>2, ClockFacts, DateFacts
  <2>2. ToLocal(series.zone, new.end) = ToLocal(series.zone, original) + WallDuration(series)
    BY <1>1, <1>2, <2>1, InstantFacts DEF BaseOccurrence, SplitAt
  <2>3. WallDuration(series) \in Int /\ ToLocal(series.zone, original) \in Int
    BY <1>2, ClockFacts, DateFacts
  <2>4. WallDuration(new) = WallDuration(series)
    <3>1. WallDuration(new) = ToLocal(series.zone, new.end) - ToLocal(series.zone, original)
      BY <1>1, <1>m DEF WallDuration
    <3> HIDE DEF new
    <3> QED
      BY ONLY <2>2, <2>3, <3>1
  <2> HIDE DEF new
  <2> QED
    BY <1>1, <2>4 DEF BaseOccurrence
<1> QED
  BY <1>8, <1>9, <1>10

\* What a split leaves.
IsSplit(series, original, old, new) ==
    /\ old = Truncated(series, original) /\ new = NewSeries(series, original)
    /\ original \in Int /\ IsSlot(series, original) /\ AcceptsSplit(series, original)

\* Slots, times and exceptions after a split.
LEMMA SplitGivesSlots ==
    ASSUME NEW series, IsSeries(series), NEW original, NEW old, NEW new, IsSplit(series, original, old, new)
    PROVE  /\ \A s \in Int : /\ IsSlot(old, s) <=> IsSlot(series, s) /\ s < original
                             /\ IsSlot(new, s) <=> IsSlot(series, s) /\ original <= s
                             /\ BaseOccurrence(new, s) = BaseOccurrence(series, s)
           /\ old.exceptions = {x \in series.exceptions : x.original < original}
           /\ new.exceptions = {x \in series.exceptions : x.original >= original}
<1> PICK date, k : SplitAt(series, original, date, k) /\ k = ValidateMember(series, original)
  BY SplitOrdinal DEF IsSplit
<1>1. ASSUME NEW s \in Int
      PROVE  /\ IsSlot(old, s) <=> IsSlot(series, s) /\ s < original
             /\ IsSlot(new, s) <=> IsSlot(series, s) /\ original <= s
             /\ BaseOccurrence(new, s) = BaseOccurrence(series, s)
  BY OldSlots, NewSlots DEF IsSplit
<1>2. old.exceptions = {x \in series.exceptions : x.original < original}
  BY OldFields DEF IsSplit
<1>3. new.exceptions = {x \in series.exceptions : x.original >= original}
  BY NewFields DEF IsSplit
<1> QED
  BY <1>1, <1>2, <1>3

\* Questions are about the series that are given.
SeriesAsked == question.is = "series" => question.series \in Series

\* For any series: an edit of an occurrence and all that follow gives every
\* occurrence to exactly one of the two series that replace it, at its time and
\* with its exception.
THEOREM SplitsHold == SeriesSpec => []SplitsKeepTheSeries
<1> DEFINE Inv == SeriesAsked /\ SplitsKeepTheSeries
<1>1. SeriesInit => Inv
  BY DEF SeriesInit, SeriesQuestions, SeriesAsked, SplitsKeepTheSeries
<1>2. Inv /\ [AskSeries]_<<question, answer>> => Inv'
  <2> SUFFICES ASSUME Inv, [AskSeries]_<<question, answer>> PROVE Inv'
    OBVIOUS
  <2>1. CASE AskAgenda
    BY <2>1 DEF AskAgenda, SeriesAsked, SplitsKeepTheSeries
  <2>2. CASE AskSplit
    <3> DEFINE series == question.series
    <3>1. question.is = "series"
      BY <2>2 DEF AskSplit
    <3> PICK original \in Probed[series] :
            /\ IsSlot(series, original) /\ AcceptsSplit(series, original)
            /\ question' = [is |-> "split", series |-> series, original |-> original]
            /\ answer' = [old |-> Truncated(series, original), new |-> NewSeries(series, original)]
      BY <2>2, <3>1 DEF AskSplit
    <3> DEFINE old == answer'.old
               new == answer'.new
    <3>2. series \in Series
      BY <3>1 DEF SeriesAsked
    <3>3. IsSeries(series) /\ Probed[series] \subseteq Int
      BY <3>2, SeriesAreSound
    <3>4. IsSplit(series, original, old, new)
      BY <3>3 DEF IsSplit
    <3>5. /\ \A s \in Int : /\ IsSlot(old, s) <=> IsSlot(series, s) /\ s < original
                            /\ IsSlot(new, s) <=> IsSlot(series, s) /\ original <= s
                            /\ BaseOccurrence(new, s) = BaseOccurrence(series, s)
          /\ old.exceptions = {x \in series.exceptions : x.original < original}
          /\ new.exceptions = {x \in series.exceptions : x.original >= original}
      BY <3>3, <3>4, SplitGivesSlots
    <3> HIDE DEF old, new
    <3>6. ASSUME NEW x \in series.exceptions
          PROVE  IF x.original < original THEN x \in old.exceptions \ new.exceptions /\ IsSlot(old, x.original)
                 ELSE x \in new.exceptions \ old.exceptions /\ IsSlot(new, x.original)
      <4>1. x.original \in Int /\ IsSlot(series, x.original)
        BY <3>3 DEF IsSeries, Exceptions
      <4>2. original \in Int
        BY <3>3
      <4> PICK o \in Int, v \in Int : o = original /\ v = x.original
        BY <4>1, <4>2
      <4>3. CASE v < o
        BY <3>5, <4>1, <4>3
      <4>4. CASE ~(v < o)
        <5>1. v >= o /\ o <= v
          BY <4>4
        <5> QED
          BY <3>5, <4>1, <4>4, <5>1
      <4> QED
        BY <4>3, <4>4
    <3>7. ASSUME NEW s \in Probed[series]
          PROVE  /\ IsSlot(old, s) <=> IsSlot(series, s) /\ s < original
                 /\ IsSlot(new, s) <=> IsSlot(series, s) /\ original <= s
                 /\ IsSlot(new, s) => BaseOccurrence(new, s) = BaseOccurrence(series, s)
      BY <3>3, <3>5
    <3>8. question'.is = "split" /\ question'.series = series /\ question'.original = original
      OBVIOUS
    <3>9. SeriesAsked'
      BY <3>8 DEF SeriesAsked
    <3>10. SplitsKeepTheSeries'
      BY <3>6, <3>7, <3>8 DEF SplitsKeepTheSeries, old, new
    <3> QED
      BY <3>9, <3>10
  <2>3. CASE UNCHANGED <<question, answer>>
    BY <2>3 DEF SeriesAsked, SplitsKeepTheSeries
  <2> QED
    BY <2>1, <2>2, <2>3 DEF AskSeries
<1>3. Inv => SplitsKeepTheSeries
  OBVIOUS
<1> QED
  BY <1>1, <1>2, <1>3, PTL DEF SeriesSpec

----
(* The agenda *)

\* The start and the end of the event of a date.
SlotOn(series, d) == ToUtc(series.zone, LocalStart(series, d))
EndOn(series, d)  == ToUtc(series.zone, LocalStart(series, d) + WallDuration(series))

\* The parts of Expand.
ScannedDates(series, range) ==
    {d \in (ScanFrom(series, range) .. DateOf(ToLocal(series.zone, range.end)) + 1) \cap Days :
        Produced(series, d)}

ScannedSlots(series, range) ==
    {d \in ScannedDates(series, range) : Before(series.rule, SlotOn(series, d))}

Scanned(series, range) ==
    {Occurrence(SlotOn(series, d), EndOn(series, d), series.exceptions) : d \in ScannedSlots(series, range)}

Elsewhere(series, range) ==
    {x \in series.exceptions :
        /\ \A o \in Scanned(series, range) : o.original # x.original
        /\ ~x.deleted /\ x.start # Same}

MovedBy(series, x) == Occurrence(x.original, x.original + series.end - series.start, {x})
Moved(series, range) == {MovedBy(series, x) : x \in Elsewhere(series, range)}

Left(series, S) == {o \in S : o.original \notin {x.original : x \in {e \in series.exceptions : e.deleted}}}
Shown(series, range, S) == {o \in Left(series, S) : Overlaps(o, range)}

CannotExpand(series, range) ==
    \/ \E d \in ScannedDates(series, range) : Odd(series.zone, LocalStart(series, d))
    \/ \E d \in ScannedSlots(series, range) : Odd(series.zone, LocalStart(series, d) + WallDuration(series))
    \/ \E o \in Left(series, Scanned(series, range)) \union Left(series, Moved(series, range)) : o.end < o.start

\* Expand from its parts.
LEMMA ExpandForm ==
    ASSUME NEW series, NEW range
    PROVE  Expand(series, range) =
               IF CannotExpand(series, range) THEN NoAgenda
               ELSE KeepFirst(Shown(series, range, Scanned(series, range)),
                              Shown(series, range, Moved(series, range)))
BY Zenon DEF Expand, CannotExpand, Shown, Left, Moved, MovedBy, Elsewhere, Scanned, ScannedSlots,
             ScannedDates, SlotOn, EndOn

\* An occurrence without an exception.
LEMMA UnchangedOccurrence ==
    ASSUME NEW s \in Int, NEW e \in Int, NEW X, \A x \in X : x.original # s
    PROVE  Occurrence(s, e, X) = [original |-> s, start |-> s, end |-> e]
<1>1. {x \in X : x.original = s} = {}
  OBVIOUS
<1>2. Occurrence(s, e, X) = [original |-> s, start |-> s, end |-> s + e - s]
  BY <1>1 DEF Occurrence
<1> QED
  BY <1>2

\* An occurrence with its one exception.
LEMMA ChangedOccurrence ==
    ASSUME NEW s, NEW e, NEW X, NEW x \in X, x.original = s,
           \A y \in X : y.original = s => y = x
    PROVE  LET newStart == IF x.start = Same THEN s ELSE x.start
           IN  Occurrence(s, e, X) =
                   [original |-> s, start |-> newStart,
                    end |-> IF x.end = Same THEN newStart + e - s ELSE x.end]
<1>1. {y \in X : y.original = s} = {x}
  OBVIOUS
<1>2. {x} # {} /\ (CHOOSE c \in {x} : TRUE) = x
  OBVIOUS
<1> QED
  BY <1>1, <1>2, Zenon DEF Occurrence

\* ... that moves its start.
LEMMA MovedStart ==
    ASSUME NEW s, NEW e, NEW X, NEW x \in X, x.original = s,
           \A y \in X : y.original = s => y = x, x.start # Same
    PROVE  Occurrence(s, e, X) =
               [original |-> s, start |-> x.start,
                end |-> IF x.end = Same THEN x.start + e - s ELSE x.end]
<1> DEFINE shape(v) == [original |-> s, start |-> v, end |-> IF x.end = Same THEN v + e - s ELSE x.end]
<1>1. Occurrence(s, e, X) = shape(IF x.start = Same THEN s ELSE x.start)
  BY ChangedOccurrence
<1>2. (IF x.start = Same THEN s ELSE x.start) = x.start
  OBVIOUS
<1> QED
  BY <1>1, <1>2

\* What a date that is scanned shows.
LEMMA ScannedOccurrence ==
    ASSUME NEW series, IsSeries(series), NEW s, NEW d, IsDateOf(series, s, d)
    PROVE  /\ SlotOn(series, d) = s
           /\ Occurrence(s, EndOn(series, d), series.exceptions) = OccurrenceAt(series, s)
           /\ OccurrenceAt(series, s).original = s
<1>1. SlotOn(series, d) = s /\ ToLocal(series.zone, s) = LocalStart(series, d)
  BY DEF IsDateOf, SlotOn
<1>2. BaseOccurrence(series, s).end = EndOn(series, d)
  BY <1>1 DEF BaseOccurrence, EndOn
<1>3. Occurrence(s, EndOn(series, d), series.exceptions).original = s
  BY Zenon DEF Occurrence
<1> QED
  BY <1>1, <1>2, <1>3 DEF OccurrenceAt

\* What an exception from elsewhere shows.
LEMMA MovedOccurrence ==
    ASSUME NEW series, IsSeries(series), NEW x \in series.exceptions, x.start # Same
    PROVE  /\ MovedBy(series, x).original = x.original
           /\ MovedBy(series, x).start = OccurrenceAt(series, x.original).start
           /\ x.end # Same => MovedBy(series, x) = OccurrenceAt(series, x.original)
           /\ x.end = Same => ~(MovedBy(series, x).end < MovedBy(series, x).start)
<1> PICK v \in Int, start \in Int, from \in Int, to \in Int :
        /\ v = x.original /\ start = x.start /\ from = series.start /\ to = series.end /\ from <= to
  BY DEF IsSeries, Exceptions
<1>1. OccurrenceAt(series, v).start = start /\ OccurrenceAt(series, v).original = v
      /\ (x.end # Same => OccurrenceAt(series, v) = [original |-> v, start |-> start, end |-> x.end])
  <2>1. \A y \in series.exceptions : y.original = v => y = x
    BY DEF IsSeries
  <2> DEFINE e == BaseOccurrence(series, v).end
  <2> HIDE DEF e
  <2>2. Occurrence(v, e, series.exceptions) =
            [original |-> v, start |-> x.start, end |-> IF x.end = Same THEN x.start + e - v ELSE x.end]
    <3> DEFINE X == series.exceptions
    <3>1. x \in X /\ (\A y \in X : y.original = v => y = x) /\ x.original = v
      BY <2>1
    <3> HIDE DEF X
    <3>2. Occurrence(v, e, X) =
              [original |-> v, start |-> x.start, end |-> IF x.end = Same THEN x.start + e - v ELSE x.end]
      BY ONLY <3>1, x.start # Same, MovedStart
    <3> QED
      BY <3>2 DEF X
  <2> QED
    BY <2>2 DEF OccurrenceAt, e
<1>2. MovedBy(series, x) =
          [original |-> v, start |-> start,
           end |-> IF x.end = Same THEN start + (v + to - from) - v ELSE x.end]
  <2> DEFINE e == v + to - from
  <2> HIDE DEF e
  <2>1. Occurrence(v, e, {x}) =
            [original |-> v, start |-> x.start, end |-> IF x.end = Same THEN x.start + e - v ELSE x.end]
    <3> DEFINE X == {x}
    <3>1. x \in X /\ (\A y \in X : y.original = v => y = x) /\ x.original = v
      OBVIOUS
    <3> HIDE DEF X
    <3>2. Occurrence(v, e, X) =
              [original |-> v, start |-> x.start, end |-> IF x.end = Same THEN x.start + e - v ELSE x.end]
      BY ONLY <3>1, x.start # Same, MovedStart
    <3> QED
      BY <3>2 DEF X
  <2>2. MovedBy(series, x) = Occurrence(v, e, {x})
    BY DEF MovedBy, e
  <2> QED
    BY <2>1, <2>2 DEF e
<1>3. ~(start + (v + to - from) - v < start)
  OBVIOUS
<1> QED
  BY <1>1, <1>2, <1>3

\* The parts of IsBroken.
Breaks(series, s) == ~IsDeleted(series, s) /\ OccurrenceAt(series, s).end < OccurrenceAt(series, s).start

\* It is enough that one slot breaks.
LEMMA SlotBreaks ==
    ASSUME NEW series, IsSeries(series), NEW s, NEW d, IsDateOf(series, s, d), Breaks(series, s)
    PROVE  IsBroken(series)
<1>1. d \in Days /\ Produced(series, d) /\ s = ToUtc(series.zone, LocalStart(series, d))
  BY DEF IsDateOf
<1> QED
  BY <1>1 DEF IsBroken, Breaks

\* A moved exception is of a slot.
LEMMA ExceptionHasDate ==
    ASSUME NEW series, IsSeries(series), NEW x \in series.exceptions
    PROVE  /\ x.original \in Int /\ IsSlot(series, x.original)
           /\ IsDateOf(series, x.original, DateOf(ToLocal(series.zone, x.original)))
<1>1. x.original \in Int /\ IsSlot(series, x.original)
  BY DEF IsSeries, Exceptions
<1>2. IsPoint(series, x.original)
  BY <1>1, SeriesSlots
<1> QED
  BY <1>1, <1>2, PointHasDate

\* What is scanned when no start is odd.
LEMMA ScannedMember ==
    ASSUME NEW series, IsSeries(series), NEW range,
           \A d \in ScannedDates(series, range) : ~Odd(series.zone, LocalStart(series, d)),
           NEW o \in Scanned(series, range)
    PROVE  \E d \in ScannedSlots(series, range) :
               /\ IsDateOf(series, o.original, d) /\ Before(series.rule, o.original)
               /\ o = OccurrenceAt(series, o.original)
<1> PICK d \in ScannedSlots(series, range) :
        o = Occurrence(SlotOn(series, d), EndOn(series, d), series.exceptions)
  BY DEF Scanned
<1>1. d \in ScannedDates(series, range) /\ Before(series.rule, SlotOn(series, d))
  BY DEF ScannedSlots
<1>2. d \in Days /\ Produced(series, d) /\ ~Odd(series.zone, LocalStart(series, d))
  BY <1>1 DEF ScannedDates
<1>3. IsDateOf(series, SlotOn(series, d), d)
  BY <1>2, ProducedIsSlot DEF SlotOn
<1>4. /\ o = OccurrenceAt(series, SlotOn(series, d))
      /\ OccurrenceAt(series, SlotOn(series, d)).original = SlotOn(series, d)
  BY <1>3, ScannedOccurrence
<1> QED
  BY <1>1, <1>3, <1>4

\* What is left is not deleted.
LEMMA LeftMeans ==
    ASSUME NEW series, NEW S, NEW o
    PROVE  o \in Left(series, S) <=> o \in S /\ ~IsDeleted(series, o.original)
BY DEF Left, IsDeleted

\* The agenda fails only for a broken series.
LEMMA FailureIsBroken ==
    ASSUME NEW series, IsSeries(series), NEW range, CannotExpand(series, range)
    PROVE  IsBroken(series)
<1>1. ASSUME NEW d \in ScannedDates(series, range),
             \/ Odd(series.zone, LocalStart(series, d))
             \/ Odd(series.zone, LocalStart(series, d) + WallDuration(series))
      PROVE  IsBroken(series)
  <2>1. d \in Days /\ Produced(series, d)
    BY DEF ScannedDates
  <2> QED
    BY <1>1, <2>1 DEF IsBroken
<1>2. ASSUME \A d \in ScannedDates(series, range) : ~Odd(series.zone, LocalStart(series, d)),
             NEW o \in Left(series, Scanned(series, range)), o.end < o.start
      PROVE  IsBroken(series)
  <2>1. o \in Scanned(series, range) /\ ~IsDeleted(series, o.original)
    BY LeftMeans
  <2> PICK d \in ScannedSlots(series, range) :
          IsDateOf(series, o.original, d) /\ o = OccurrenceAt(series, o.original)
    BY <1>2, <2>1, ScannedMember
  <2>2. Breaks(series, o.original)
    BY <1>2, <2>1 DEF Breaks
  <2> QED
    BY <2>2, SlotBreaks
<1>3. ASSUME NEW o \in Left(series, Moved(series, range)), o.end < o.start
      PROVE  IsBroken(series)
  <2>1. o \in Moved(series, range) /\ ~IsDeleted(series, o.original)
    BY LeftMeans
  <2> PICK x \in Elsewhere(series, range) : o = MovedBy(series, x)
    BY <2>1 DEF Moved
  <2>2. x \in series.exceptions /\ x.start # Same
    BY DEF Elsewhere
  <2>3. o.original = x.original /\ o = OccurrenceAt(series, x.original)
    BY <1>3, <2>2, MovedOccurrence
  <2>4. Breaks(series, x.original)
    BY <1>3, <2>1, <2>3 DEF Breaks
  <2> QED
    BY <2>2, <2>4, ExceptionHasDate, SlotBreaks
<1>4. ScannedSlots(series, range) \subseteq ScannedDates(series, range)
  BY DEF ScannedSlots
<1> QED
  BY <1>1, <1>2, <1>3, <1>4 DEF CannotExpand

\* Of occurrences of slots one comes first.
LEMMA FirstExists ==
    ASSUME NEW series, IsSeries(series), NEW S, S # {},
           \A o \in S : \E d \in Days : IsDateOf(series, o.original, d)
    PROVE  \E o \in S : \A p \in S : o.original <= p.original
<1> DEFINE dates == {d \in Days : \E o \in S : IsDateOf(series, o.original, d)}
<1>1. dates \in SUBSET Nat /\ dates # {}
  BY DEF Days
<1> PICK d \in dates : \A e \in dates : d <= e
  BY <1>1, LeastOf
<1> PICK o \in S : IsDateOf(series, o.original, d)
  OBVIOUS
<1>2. ASSUME NEW p \in S PROVE o.original <= p.original
  <2> PICK e \in Days : IsDateOf(series, p.original, e)
    OBVIOUS
  <2>1. d <= e /\ d \in Int /\ e \in Int
    BY DEF Days
  <2>2. (d < e <=> o.original < p.original) /\ (d = e <=> o.original = p.original)
    BY DatesOrdered
  <2>3. o.original \in Int /\ p.original \in Int
    BY DEF IsDateOf
  <2> HIDE DEF dates
  <2> QED
    BY <2>1, <2>2, <2>3
<1> QED
  BY <1>2

\* Agendas that do not fail.
Unbroken(series, range) == IsSeries(series) /\ range \in [start : Int, end : Int] /\ ~CannotExpand(series, range)

\* A scanned occurrence that is shown is due, and as it has to be.
LEMMA ScannedShown ==
    ASSUME NEW series, NEW range, Unbroken(series, range),
           NEW o \in Shown(series, range, Scanned(series, range))
    PROVE  /\ o = OccurrenceAt(series, o.original) /\ Overlaps(o, range)
           /\ IsSlot(series, o.original) /\ ~IsDeleted(series, o.original)
           /\ \E d \in Days : IsDateOf(series, o.original, d)
<1>1. o \in Left(series, Scanned(series, range)) /\ Overlaps(o, range)
  BY DEF Shown
<1>2. o \in Scanned(series, range) /\ ~IsDeleted(series, o.original)
  BY <1>1, LeftMeans
<1>3. \A d \in ScannedDates(series, range) : ~Odd(series.zone, LocalStart(series, d))
  BY DEF Unbroken, CannotExpand
<1>4. IsSeries(series)
  BY DEF Unbroken
<1> PICK d \in ScannedSlots(series, range) :
        /\ IsDateOf(series, o.original, d) /\ Before(series.rule, o.original)
        /\ o = OccurrenceAt(series, o.original)
  BY <1>2, <1>3, <1>4, ScannedMember
<1>5. IsSlot(series, o.original)
  BY <1>4, DateIsPoint, SeriesSlots
<1>6. d \in Days
  BY DEF IsDateOf
<1> QED
  BY <1>1, <1>2, <1>5, <1>6

\* So is a moved one, unless its exception has only a start.
LEMMA MovedShown ==
    ASSUME NEW series, NEW range, Unbroken(series, range),
           NEW o \in Shown(series, range, Moved(series, range))
    PROVE  /\ o.start = OccurrenceAt(series, o.original).start /\ Overlaps(o, range)
           /\ IsSlot(series, o.original) /\ ~IsDeleted(series, o.original)
           /\ \E d \in Days : IsDateOf(series, o.original, d)
           /\ IsHalf(series, o.original) \/ o = OccurrenceAt(series, o.original)
           /\ \E x \in Elsewhere(series, range) : o = MovedBy(series, x) /\ o.original = x.original
<1>1. o \in Left(series, Moved(series, range)) /\ Overlaps(o, range)
  BY DEF Shown
<1>2. o \in Moved(series, range) /\ ~IsDeleted(series, o.original)
  BY <1>1, LeftMeans
<1>3. IsSeries(series)
  BY DEF Unbroken
<1> PICK x \in Elsewhere(series, range) : o = MovedBy(series, x)
  BY <1>2 DEF Moved
<1>4. x \in series.exceptions /\ x.start # Same
  BY DEF Elsewhere
<1>5. /\ o.original = x.original /\ o.start = OccurrenceAt(series, o.original).start
      /\ x.end # Same => o = OccurrenceAt(series, o.original)
  BY <1>3, <1>4, MovedOccurrence
<1>6. x.end = Same => IsHalf(series, o.original)
  BY <1>4, <1>5 DEF IsHalf
<1>7. IsSlot(series, o.original) /\ IsDateOf(series, o.original, DateOf(ToLocal(series.zone, o.original)))
  BY <1>3, <1>4, <1>5, ExceptionHasDate
<1>8. DateOf(ToLocal(series.zone, o.original)) \in Days
  BY <1>7 DEF IsDateOf
<1> QED
  BY <1>1, <1>2, <1>5, <1>6, <1>7, <1>8

\* Among those scanned, and among those moved, the original start tells which.
LEMMA OriginalTells ==
    ASSUME NEW series, NEW range, Unbroken(series, range),
           NEW S, S = Shown(series, range, Scanned(series, range)) \/ S = Shown(series, range, Moved(series, range)),
           NEW o \in S, NEW p \in S, o.original = p.original
    PROVE  o = p
<1>1. CASE S = Shown(series, range, Scanned(series, range))
  BY <1>1, ScannedShown
<1>2. CASE S = Shown(series, range, Moved(series, range))
  <2> PICK x \in Elsewhere(series, range) : o = MovedBy(series, x) /\ o.original = x.original
    BY <1>2, MovedShown
  <2> PICK y \in Elsewhere(series, range) : p = MovedBy(series, y) /\ p.original = y.original
    BY <1>2, MovedShown
  <2>1. x \in series.exceptions /\ y \in series.exceptions
    BY DEF Elsewhere
  <2>2. x = y
    BY <2>1 DEF Unbroken, IsSeries
  <2> QED
    BY <2>2
<1> QED
  BY <1>1, <1>2

\* Of those that start together, one is kept.
LEMMA KeepsOne ==
    ASSUME NEW series, NEW range, Unbroken(series, range),
           NEW S, S = Shown(series, range, Scanned(series, range)),
           NEW M, M = Shown(series, range, Moved(series, range)),
           NEW o \in KeepFirst(S, M), NEW p \in KeepFirst(S, M), o.start = p.start
    PROVE  o = p
<1>1. o \in S \union M /\ p \in S \union M
  BY DEF KeepFirst
<1>2. o.original \in Int /\ p.original \in Int
  BY <1>1, ScannedShown, MovedShown DEF IsDateOf
<1>3. CASE o \in S
  <2>1. p \in S
    BY <1>3 DEF KeepFirst
  <2>2. \A q \in S : q.start = o.start => o.original <= q.original
    BY <1>3 DEF KeepFirst
  <2>3. \A q \in S : q.start = p.start => p.original <= q.original
    BY <1>3, <2>1 DEF KeepFirst
  <2>4. o.original = p.original
    BY <1>2, <1>3, <2>1, <2>2, <2>3
  <2> QED
    BY <1>3, <2>1, <2>4, OriginalTells
<1>4. CASE p \in S /\ o \notin S
  BY <1>4 DEF KeepFirst
<1>5. CASE o \notin S /\ p \notin S
  <2>1. o \in M /\ p \in M
    BY <1>1, <1>5
  <2>2. /\ \A q \in M : q.start = o.start => o.original <= q.original
        /\ \A q \in M : q.start = p.start => p.original <= q.original
    BY <1>5 DEF KeepFirst
  <2>4. o.original = p.original
    BY <1>2, <2>1, <2>2
  <2> QED
    BY <2>1, <2>4, OriginalTells
<1> QED
  BY <1>3, <1>4, <1>5

\* ... and one there is.
LEMMA KeepsSome ==
    ASSUME NEW series, NEW range, Unbroken(series, range),
           NEW S, S = Shown(series, range, Scanned(series, range)),
           NEW M, M = Shown(series, range, Moved(series, range)),
           NEW o \in S \union M
    PROVE  \E p \in KeepFirst(S, M) : p.start = o.start
<1> DEFINE together(T) == {q \in T : q.start = o.start}
<1>0. IsSeries(series)
  BY DEF Unbroken
<1>1. ASSUME NEW T \in {S, M}, together(T) # {}
      PROVE  \E p \in T : p.start = o.start /\ \A q \in T : q.start = p.start => p.original <= q.original
  <2>1. \A q \in together(T) : \E d \in Days : IsDateOf(series, q.original, d)
    BY ScannedShown, MovedShown
  <2> HIDE DEF together
  <2> PICK p \in together(T) : \A q \in together(T) : p.original <= q.original
    BY <1>0, <1>1, <2>1, FirstExists
  <2> QED
    BY DEF together
<1>2. CASE together(S) # {}
  <2> PICK p \in S : p.start = o.start /\ \A q \in S : q.start = p.start => p.original <= q.original
    BY <1>1, <1>2
  <2>1. p \in KeepFirst(S, M)
    BY DEF KeepFirst
  <2> QED
    BY <2>1
<1>3. CASE together(S) = {}
  <2>1. together(M) # {}
    BY <1>3
  <2> PICK p \in M : p.start = o.start /\ \A q \in M : q.start = p.start => p.original <= q.original
    BY <1>1, <2>1
  <2>2. \A q \in S : q.start # p.start
    BY <1>3
  <2>3. p \in KeepFirst(S, M)
    BY <2>2 DEF KeepFirst
  <2> QED
    BY <2>3
<1> QED
  BY <1>2, <1>3

\* A slot whose event overlaps the range is of a date that is scanned, unless
\* its start was moved: clocks change by half a day at most, twice that is a day.
LEMMA DueIsScanned ==
    ASSUME NEW series, IsSeries(series), NEW range \in [start : Int, end : Int],
           NEW s, NEW d, IsDateOf(series, s, d), HasEnd(series, s),
           Overlaps([original |-> s, start |-> s, end |-> BaseOccurrence(series, s).end], range)
    PROVE  d \in ScanFrom(series, range) .. DateOf(ToLocal(series.zone, range.end)) + 1
<1> DEFINE zone == series.zone
           local(i) == ToLocal(zone, i)
           wall == WallDuration(series)
           until == BaseOccurrence(series, s).end
           early == range.start - (series.end - series.start)
<1>0. zone \in LocalZones
  BY DEF IsSeries
<1>1. series.start \in Int /\ series.end \in Int /\ range.start \in Int /\ range.end \in Int
      /\ early \in Int /\ s \in Int /\ d \in Int
  BY DEF IsSeries, IsDateOf, Days
<1>2. local(s) \in Int /\ wall \in Int /\ wall = local(series.end) - local(series.start)
  BY <1>0, <1>1, ClockFacts, DateFacts DEF IsDateOf, WallDuration, LocalMaster
<1>3. until \in Int /\ local(until) = local(s) + wall
  <2>1. ~Odd(zone, local(s) + wall)
    BY DEF HasEnd
  <2>2. until = ToUtc(zone, local(s) + wall)
    BY DEF BaseOccurrence
  <2>3. local(s) + wall \in Int
    BY <1>2
  <2> HIDE DEF until, local, wall
  <2>4. ToUtc(zone, local(s) + wall) \in Int /\ ToLocal(zone, ToUtc(zone, local(s) + wall)) = local(s) + wall
    BY <1>0, <2>1, <2>3, InstantFacts
  <2> QED
    BY <2>2, <2>4 DEF local
<1>4. s < range.end /\ range.start <= until
  <2> DEFINE o == [original |-> s, start |-> s, end |-> until]
  <2>1. Overlaps(o, range) /\ o.start = s /\ o.end = until
    OBVIOUS
  <2> HIDE DEF o, until
  <2> QED
    BY <1>1, <1>3, <2>1 DEF Overlaps
<1>5. ASSUME NEW i \in Int, NEW j \in Int
      PROVE  local(i) \in Int /\ local(i) - i <= local(j) - j + 12
  BY <1>0, ClockFacts
<1> HIDE DEF zone, local, wall, until, early
<1>6. DateOf(local(s)) = d
  BY DEF IsDateOf, local, zone
<1>7. local(s) < local(range.end) + 12
  <2>1. local(s) - s <= local(range.end) - range.end + 12 /\ local(range.end) \in Int
    BY <1>1, <1>5
  <2> QED
    BY ONLY <1>1, <1>2, <1>4, <2>1
<1>8. local(early) <= local(s) + 24
  <2>1. /\ local(early) - early <= local(until) - until + 12
        /\ local(series.end) - series.end <= local(series.start) - series.start + 12
        /\ local(early) \in Int /\ local(series.end) \in Int /\ local(series.start) \in Int
    BY <1>1, <1>3, <1>5
  <2>2. early = range.start - (series.end - series.start)
    BY DEF early
  <2> PICK es \in Int, ee \in Int, le \in Int, lss \in Int, lse \in Int :
          /\ es = series.start /\ ee = series.end
          /\ le = local(early) /\ lss = local(series.start) /\ lse = local(series.end)
    BY <1>1, <2>1
  <2> PICK rs \in Int, u \in Int, ls \in Int, w \in Int :
          rs = range.start /\ u = until /\ ls = local(s) /\ w = wall
    BY <1>1, <1>2, <1>3
  <2>3. /\ le - (rs - (ee - es)) <= ls + w - u + 12
        /\ lse - ee <= lss - es + 12 /\ w = lse - lss /\ rs <= u
    BY <1>2, <1>3, <1>4, <2>1, <2>2
  <2>4. le <= ls + 24
    BY ONLY <2>3, rs \in Int, u \in Int, ls \in Int, w \in Int, es \in Int, ee \in Int,
            le \in Int, lss \in Int, lse \in Int
  <2> QED
    BY <2>4
<1>9. \A i, j \in Int : (i <= j + 24 => DateOf(i) - 1 <= DateOf(j)) /\ (i < j + 12 => DateOf(i) <= DateOf(j) + 1)
      /\ DateOf(i) \in Int
  BY DEF DateOf, Day
<1>10. DateOf(local(early)) - 1 <= d /\ d <= DateOf(local(range.end)) + 1
       /\ DateOf(local(early)) \in Int /\ DateOf(local(range.end)) \in Int
  BY <1>1, <1>2, <1>5, <1>6, <1>7, <1>8, <1>9
<1>11. ScanFrom(series, range) = DateOf(local(early)) - 1
  BY DEF ScanFrom, local, early, zone
<1> QED
  BY <1>1, <1>10, <1>11 DEF local, zone

\* An occurrence whose start was not moved begins at its slot.
LEMMA UnmovedOccurrence ==
    ASSUME NEW series, IsSeries(series), NEW s \in Int, HasEnd(series, s), ~IsHalf(series, s),
           \A x \in series.exceptions : x.original = s => x.start = Same
    PROVE  OccurrenceAt(series, s) = [original |-> s, start |-> s, end |-> BaseOccurrence(series, s).end]
<1> DEFINE until == BaseOccurrence(series, s).end
<1>1. until \in Int
  <2>1. series.zone \in LocalZones
    BY DEF IsSeries
  <2>2. WallDuration(series) \in Int /\ ToLocal(series.zone, s) \in Int
    <3>1. series.start \in Int /\ series.end \in Int
      BY DEF IsSeries
    <3> QED
      BY <2>1, <3>1, ClockFacts DEF WallDuration, LocalMaster
  <2> QED
    BY <2>1, <2>2, InstantFacts DEF BaseOccurrence, HasEnd
<1> HIDE DEF until
<1>2. OccurrenceAt(series, s) = Occurrence(s, until, series.exceptions)
  BY DEF OccurrenceAt, until
<1>3. CASE \A x \in series.exceptions : x.original # s
  BY <1>1, <1>2, <1>3, UnchangedOccurrence DEF until
<1>4. CASE \E x \in series.exceptions : x.original = s
  <2> PICK x \in series.exceptions : x.original = s
    BY <1>4
  <2>1. x.start = Same /\ x.end = Same
    BY DEF IsHalf
  <2>2. \A y \in series.exceptions : y.original = s => y = x
    BY DEF IsSeries
  <2> DEFINE shape(v, e) == [original |-> s, start |-> v, end |-> e]
  <2>3. Occurrence(s, until, series.exceptions) =
            shape(IF x.start = Same THEN s ELSE x.start,
                  IF x.end = Same THEN (IF x.start = Same THEN s ELSE x.start) + until - s ELSE x.end)
    BY <2>2, ChangedOccurrence
  <2>4. (IF x.start = Same THEN s ELSE x.start) = s
        /\ (IF x.end = Same THEN (IF x.start = Same THEN s ELSE x.start) + until - s ELSE x.end) = until
    BY <1>1, <2>1
  <2> QED
    BY <1>2, <2>3, <2>4 DEF until
<1> QED
  BY <1>3, <1>4

\* An occurrence that is due is among those scanned or moved.
LEMMA DueIsShown ==
    ASSUME NEW series, NEW range, Unbroken(series, range), NEW s \in Int,
           IsSlot(series, s), ~IsDeleted(series, s), Overlaps(OccurrenceAt(series, s), range),
           HasEnd(series, s), ~IsHalf(series, s)
    PROVE  \E o \in Shown(series, range, Scanned(series, range)) \union Shown(series, range, Moved(series, range)) :
               o.start = OccurrenceAt(series, s).start
<1> DEFINE d == DateOf(ToLocal(series.zone, s))
           o == OccurrenceAt(series, s)
           dates == ScanFrom(series, range) .. DateOf(ToLocal(series.zone, range.end)) + 1
<1>1. IsSeries(series) /\ range \in [start : Int, end : Int]
  BY DEF Unbroken
<1>2. IsDateOf(series, s, d) /\ Before(series.rule, s)
  BY <1>1, SeriesSlots, PointHasDate
<1>3. o.original = s /\ SlotOn(series, d) = s /\ Occurrence(s, EndOn(series, d), series.exceptions) = o
  BY <1>1, <1>2, ScannedOccurrence
<1>4. d \in Days /\ Produced(series, d)
  BY <1>2 DEF IsDateOf
<1> HIDE DEF d, o, dates
<1>5. CASE d \in dates
  <2>1. d \in ScannedSlots(series, range)
    BY <1>2, <1>3, <1>4, <1>5 DEF ScannedSlots, ScannedDates, dates
  <2>2. o \in Scanned(series, range)
    BY <1>3, <2>1 DEF Scanned
  <2>3. o \in Left(series, Scanned(series, range))
    BY <1>3, <2>2, LeftMeans
  <2> QED
    BY <2>3 DEF Shown, o
<1>6. CASE d \notin dates
  <2>1. PICK x \in series.exceptions : x.original = s /\ x.start # Same
    BY <1>1, <1>2, <1>6, UnmovedOccurrence, DueIsScanned DEF dates
  <2>2. \A p \in Scanned(series, range) : p.original # s
    <3> SUFFICES ASSUME NEW p \in Scanned(series, range), p.original = s PROVE FALSE
      OBVIOUS
    <3>1. \A e \in ScannedDates(series, range) : ~Odd(series.zone, LocalStart(series, e))
      BY DEF Unbroken, CannotExpand
    <3> PICK e \in ScannedSlots(series, range) : IsDateOf(series, p.original, e)
      BY <1>1, <3>1, ScannedMember
    <3>2. e = d
      BY <1>1, <1>2, DatesOrdered
    <3>3. e \in dates
      BY DEF ScannedSlots, ScannedDates, dates
    <3> QED
      BY <1>6, <3>2, <3>3
  <2>3. x \in Elsewhere(series, range)
    BY <2>1, <2>2 DEF Elsewhere, IsDeleted
  <2>4. x.end # Same
    BY <2>1 DEF IsHalf
  <2>5. MovedBy(series, x) = o
    BY <1>1, <2>1, <2>4, MovedOccurrence DEF o
  <2>6. o \in Moved(series, range)
    BY <2>3, <2>5 DEF Moved
  <2>7. o \in Left(series, Moved(series, range))
    BY <1>3, <2>6, LeftMeans
  <2> QED
    BY <2>7 DEF Shown, o
<1> QED
  BY <1>5, <1>6

\* The agenda of a range, apart from when it was asked for.
AgendaIsRight(series, range, listed) ==
    LET due(s) == /\ IsSlot(series, s) /\ ~IsDeleted(series, s)
                  /\ Overlaps(OccurrenceAt(series, s), range)
    IN  \/ listed = NoAgenda /\ IsBroken(series)
        \/ /\ \A o \in listed :
                \/ IsHalf(series, o.original)
                \/ due(o.original) /\ o = OccurrenceAt(series, o.original)
           /\ \A o, p \in listed : o.start = p.start => o = p
           /\ \A s \in Probed[series] :
                due(s) /\ HasEnd(series, s) /\ ~IsHalf(series, s) =>
                    \E o \in listed : o.start = OccurrenceAt(series, s).start

\* Expand answers rightly for every series and range.
LEMMA AgendaAnswered ==
    ASSUME NEW series \in Series, NEW range \in AgendaRanges[series]
    PROVE  AgendaIsRight(series, range, Expand(series, range))
<1>1. IsSeries(series) /\ range \in [start : Int, end : Int] /\ Probed[series] \subseteq Int
  BY SeriesAreSound
<1> DEFINE S == Shown(series, range, Scanned(series, range))
           M == Shown(series, range, Moved(series, range))
           listed == Expand(series, range)
<1>2. CASE CannotExpand(series, range)
  <2>1. listed = NoAgenda
    BY <1>2, ExpandForm
  <2> HIDE DEF listed
  <2> QED
    BY <1>1, <1>2, <2>1, FailureIsBroken DEF AgendaIsRight, listed
<1>3. CASE ~CannotExpand(series, range)
  <2>1. listed = KeepFirst(S, M)
    BY <1>3, ExpandForm
  <2>2. Unbroken(series, range)
    BY <1>1, <1>3 DEF Unbroken
  <2>3. listed \subseteq S \union M
    BY <2>1 DEF KeepFirst
  <2>4. ASSUME NEW o \in listed
        PROVE  \/ IsHalf(series, o.original)
               \/ /\ IsSlot(series, o.original) /\ ~IsDeleted(series, o.original)
                  /\ Overlaps(OccurrenceAt(series, o.original), range)
                  /\ o = OccurrenceAt(series, o.original)
    <3>1. CASE o \in S
      BY <2>2, <3>1, ScannedShown
    <3>2. CASE o \in M
      BY <2>2, <3>2, MovedShown
    <3> HIDE DEF listed, S, M
    <3> QED
      BY <2>3, <3>1, <3>2
  <2>5. ASSUME NEW o \in listed, NEW p \in listed, o.start = p.start
        PROVE  o = p
    <3> HIDE DEF listed
    <3>1. o \in KeepFirst(S, M) /\ p \in KeepFirst(S, M)
      BY <2>1
    <3> QED
      BY <2>2, <2>5, <3>1, KeepsOne
  <2>6. ASSUME NEW s \in Probed[series], IsSlot(series, s), ~IsDeleted(series, s),
               Overlaps(OccurrenceAt(series, s), range), HasEnd(series, s), ~IsHalf(series, s)
        PROVE  \E o \in listed : o.start = OccurrenceAt(series, s).start
    <3>1. PICK o \in S \union M : o.start = OccurrenceAt(series, s).start
      BY <1>1, <2>2, <2>6, DueIsShown
    <3>2. \E p \in KeepFirst(S, M) : p.start = o.start
      BY <2>2, KeepsSome
    <3> HIDE DEF listed, S, M
    <3> QED
      BY <2>1, <3>1, <3>2
  <2> HIDE DEF listed, S, M
  <2> QED
    BY <2>4, <2>5, <2>6 DEF AgendaIsRight, listed
<1> QED
  BY <1>2, <1>3

\* For any series and ranges: the agenda shows the occurrences that overlap the
\* range, one of those that start together and no other, or fails for a series
\* with an occurrence that has no local time or ends before it starts.
THEOREM AgendasHold == SeriesSpec => []AgendaIsExact
<1> DEFINE Inv == SeriesAsked /\ AgendaIsExact
<1>1. ASSUME SeriesInit PROVE Inv
  BY <1>1 DEF SeriesInit, SeriesQuestions, SeriesAsked, AgendaIsExact
<1>2. ASSUME Inv, [AskSeries]_<<question, answer>> PROVE Inv'
  <2>1. CASE AskAgenda
    <3>1. question.is = "series" /\ question.series \in Series
      BY <1>2, <2>1 DEF AskAgenda, SeriesAsked
    <3> PICK range \in AgendaRanges[question.series] :
            /\ question' = [is |-> "agenda", series |-> question.series, range |-> range]
            /\ answer' = [agenda |-> Expand(question.series, range)]
      BY <2>1 DEF AskAgenda
    <3>2. AgendaIsRight(question.series, range, Expand(question.series, range))
      BY <3>1, AgendaAnswered
    <3>3. /\ question'.is = "agenda" /\ question'.series = question.series /\ question'.range = range
          /\ answer'.agenda = Expand(question.series, range)
      OBVIOUS
    <3>4. AgendaIsRight(question'.series, question'.range, answer'.agenda)
      BY ONLY <3>2, <3>3
    <3> QED
      BY <3>3, <3>4 DEF SeriesAsked, AgendaIsExact, AgendaIsRight
  <2>2. CASE AskSplit
    BY <1>2, <2>2 DEF AskSplit, SeriesAsked, AgendaIsExact
  <2>3. CASE UNCHANGED <<question, answer>>
    BY <1>2, <2>3 DEF SeriesAsked, AgendaIsExact
  <2> QED
    BY <1>2, <2>1, <2>2, <2>3 DEF AskSeries
<1>3. Inv => AgendaIsExact
  OBVIOUS
<1> QED
  BY <1>1, <1>2, <1>3, PTL DEF SeriesSpec
====
