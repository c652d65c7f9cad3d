---- MODULE CalendarSessionProofs ----
(***************************************************************************)
(* Theorems about CalendarSession for any set of events, any number of     *)
(* pages and any number of SyncKeys.                                       *)
(*                                                                         *)
(* Ids are assigned anew only when a synchronisation starts over, and then *)
(* every key that was given out before is unknown to Exchange.  So an id   *)
(* is right as long as the key it was learnt under is known: a binding     *)
(* that carries the collection's key can be used, and a rejected key says  *)
(* that ids have to be learnt again.  A scan of the same process breaks    *)
(* this, because it replaces the collection's key without touching the id  *)
(* the writer goes by; hence `overtaken'.                                  *)
(*                                                                         *)
(* Theorems about MeetingMessages for any events, people and inputs come   *)
(* next: the messages of a plan, applied to what a calendar shows, give    *)
(* what the changed event shows.                                           *)
(*                                                                         *)
(* Theorems about ScheduleAnswers for any searches and calendars come      *)
(* last.  Intervals are judged by the times they cover (Covers) or give a  *)
(* status to (Shows).  Each operator of SlotSearch is shown to keep those, *)
(* and each of its recursive functions is shown to exist and to keep an    *)
(* invariant from step to step (StepsDefine, StepsStay).                   *)
(***************************************************************************)
EXTENDS CalendarSession, MeetingMessages, ScheduleAnswers, FiniteSetTheorems, SequenceTheorems, TLAPS

Stages == {"resolve", "find", "retry", "fetch", "check", "ready", "send", "again", "done"}
Keys   == 0..MaxKeys
Locking == {"find", "retry", "send", "again"}

Laters  == {NoSource} \cup [uid : Uids, id : Ids \cup {NoId}]

\* Only an addition is followed by another request.
Working ==
    {w \in [at : Stages, does : {"add", "change", "delete", "respond"}, uid : Uids, id : Ids \cup {NoId},
            told : SUBSET Uids, pages : Nat, then : {"check", "ready", "done"}, later : Laters] :
        w.later # NoSource => w.does = "add"}

Types ==
    /\ box \subseteq Uids
    /\ number \in Numbering
    /\ srv \in [last : Keys, now : Keys, before : Keys]
    /\ key \in Keys
    /\ bindings \in [Uids -> [id : Ids \cup {NoId}, key : Keys]]
    /\ writer = NoWriter \/ writer \in Working
    /\ ran \subseteq Uids
    /\ overtaken \in BOOLEAN

\* No key is newer than the last one, and the one before is older than the current.
KeysInOrder ==
    /\ srv.now <= srv.last /\ key <= srv.last
    /\ \A u \in Uids : bindings[u].key <= srv.last
    /\ srv.before = 0 \/ srv.before < srv.now

OneInSession == agenda # NoScan => writer.at \notin Locking

\* A scan drops all bindings, and nobody binds while it goes on.
Unbound == agenda # NoScan \/ writer.at \in {"find", "retry"} => \A u \in Uids : bindings[u].id = NoId

\* While a writer relies on them, bindings with a known key are right.
Trusted ==
    writer.at \in {"fetch", "check"} \/ (writer.at = "done" /\ writer.does = "add") =>
        \A u \in Uids : bindings[u].id # NoId =>
            /\ bindings[u].key # 0
            /\ Known(bindings[u].key) => number[u] = bindings[u].id /\ bindings[u].key = srv.now

\* The writer is about to change or delete an event by an id.
Aiming == writer.at # "off" /\ writer.does \in {"change", "delete"} /\ (Bound \/ writer.at \in {"send", "again"})

Aimed ==
    Aiming /\ ~overtaken =>
        /\ agenda = NoScan
        /\ key # 0
        /\ Known(key) => key = srv.now /\ (writer.at # "fetch" => number[writer.uid] = writer.id)

\* A mutation is confirmed once; an event to be added is in the mailbox if and
\* only if the writer put it there.
RanOnce ==
    /\ writer.at = "off" => ran = {}
    /\ writer.at \notin {"off", "done"} /\ writer.does # "add" => ran = {}
    /\ writer.at # "off" /\ writer.does = "add" /\ ran = {} => writer.uid \notin box

\* Meeting responses are not sent in the session, and only additions are read back.
ByKey ==
    /\ writer.at \in {"retry", "send", "again"} => writer.does # "respond"
    /\ writer.at \in {"resolve", "find", "fetch"} /\ writer.then = "done" => writer.does = "add"

Hit  == Keyed /\ ~overtaken => ran \subseteq {writer.uid}
Done == writer.at = "done" /\ ~overtaken => ran # {}

IInv ==
    /\ Types /\ KeysInOrder /\ OneInSession /\ Unbound
    /\ Trusted /\ Aimed /\ RanOnce /\ ByKey /\ Hit /\ Done

----
(* Ids and keys *)

\* Distinct events have distinct ids.
LEMMA NumberingFacts ==
    ASSUME NEW n \in Numbering
    PROVE  /\ n \in [Uids -> Ids]
           /\ \A u, v \in Uids : n[u] = n[v] => u = v
BY DEF Numbering, Injection, IsInjective

\* No event has the id NoId.
LEMMA IdFacts == Ids \subseteq Nat \ {NoId} /\ MaxKeys \in Nat
BY BoundsAreNatural DEF Ids, NoId

\* A next key is newer than any given out before.
LEMMA NextKeyFacts ==
    ASSUME Types, NEW k \in Keys, NextKey(k)
    PROVE  /\ srv' \in [last : Keys, now : Keys, before : Keys]
           /\ srv'.last = srv.last + 1 /\ srv'.now = srv.last + 1 /\ srv'.before = k
BY BoundsAreNatural DEF Types, NextKey, Keys

----
(* What steps do to the server, to bindings and to a writer *)

\* A writer that is under way is in working order.
LEMMA AtWork == Types /\ writer.at # "off" => writer \in Working
BY DEF Types, NoWriter

\* The forms in which a step leaves a writer: it keeps its task.
Same(v, w) == v \in Working /\ v.does = w.does /\ v.uid = w.uid

LEMMA PlacedForm ==
    ASSUME NEW w \in Working, NEW s \in Stages
    PROVE  /\ Same([w EXCEPT !.at = s], w)
           /\ [w EXCEPT !.at = s].at = s /\ [w EXCEPT !.at = s].id = w.id
           /\ [w EXCEPT !.at = s].then = w.then
BY DEF Same, Working

LEMMA ScanningForm ==
    ASSUME NEW w \in Working, NEW s \in Stages
    PROVE  Same(Scanning(s, w), w) /\ Scanning(s, w).at = s /\ Scanning(s, w).then = w.then
BY DEF Same, Working, Scanning

LEMMA TurnedForm ==
    ASSUME NEW w \in Working, NEW T \in SUBSET Uids
    PROVE  /\ Same([w EXCEPT !.told = T, !.pages = @ + 1], w)
           /\ [w EXCEPT !.told = T, !.pages = @ + 1].at = w.at
           /\ [w EXCEPT !.told = T, !.pages = @ + 1].then = w.then
<1>1. w.pages + 1 \in Nat
  BY DEF Working
<1> QED BY <1>1 DEF Same, Working

LEMMA NewWork ==
    ASSUME NEW kind \in {"add", "change", "delete", "respond"}, NEW u \in Uids
    PROVE  /\ Work(kind, u) \in Working
           /\ [Work(kind, u) EXCEPT !.at = "ready"] \in Working
           /\ \A v \in Uids, i \in Ids \cup {NoId} :
                 [Work("add", u) EXCEPT !.at = "ready", !.later = [uid |-> v, id |-> i]] \in Working
           /\ \A i \in Ids \cup {NoId} :
                 [Work(kind, u) EXCEPT !.at = "check", !.id = i, !.then = "ready"] \in Working
BY DEF Work, Working, Stages, Laters, NoSource

\* Exchange starts over: ids are assigned anew under a key newer than any.
LEMMA StartOverFacts ==
    ASSUME Types, StartOver
    PROVE  /\ srv' \in [last : Keys, now : Keys, before : Keys] /\ box' = box /\ number' \in Numbering
           /\ srv'.last = srv.last + 1 /\ srv'.now = srv.last + 1 /\ srv'.before = 0
           /\ srv.last + 1 \in Keys /\ srv.last \in Keys
BY IdFacts DEF StartOver, NextKey, Types, Keys

\* A page: the ids stay, and so does the key if there is nothing to tell.
LEMMA TellFacts ==
    ASSUME Types, KeysInOrder, NEW changes, Tell(key, changes)
    PROVE  /\ box' = box /\ number' = number
           /\ srv' \in [last : Keys, now : Keys, before : Keys]
           /\ srv'.now <= srv'.last /\ srv.last <= srv'.last /\ srv'.now # 0
           /\ srv'.before = 0 \/ srv'.before < srv'.now
           /\ \/ srv'.now = srv.now /\ srv'.before = srv.before
              \/ srv'.now = srv.last + 1 /\ srv'.before = key
BY IdFacts DEF Tell, NextKey, Known, KeysInOrder, Types, Keys

\* A scan starts: the collection is reset.
LEMMA StartScanFacts ==
    ASSUME Types, NEW w \in Working, StartScan(w)
    PROVE  /\ srv' \in [last : Keys, now : Keys, before : Keys] /\ box' = box /\ number' \in Numbering
           /\ srv'.last = srv.last + 1 /\ srv'.now = srv.last + 1 /\ srv'.before = 0
           /\ bindings' \in [Uids -> [id : Ids \cup {NoId}, key : Keys]]
           /\ \A u \in Uids : bindings'[u].id = NoId /\ bindings'[u].key = 0
           /\ \/ /\ writer' = w /\ ran' = ran /\ overtaken' = overtaken
                 /\ key' = srv.last + 1 /\ key' \in Keys
              \/ /\ writer' = NoWriter /\ ran' = {} /\ overtaken' = FALSE
                 /\ key' = 0 /\ key' \in Keys
<1>1. StartOver /\ ResetBindings
  BY DEF StartScan
<1>2. bindings' \in [Uids -> [id : Ids \cup {NoId}, key : Keys]]
      /\ \A u \in Uids : bindings'[u].id = NoId /\ bindings'[u].key = 0
  BY <1>1, IdFacts DEF ResetBindings, Nowhere, Keys
<1>3. 0 \in Keys
  BY IdFacts DEF Keys
<1> QED BY <1>1, <1>2, <1>3, StartOverFacts DEF StartScan, GoOn, StopWriter

\* A call that gets the lock has confirmed nothing yet.
LEMMA BeginKeeps ==
    ASSUME IInv, NEW kind \in {"add", "change", "delete", "respond"}, NEW u \in Uids, Begin(kind, u)
    PROVE  IInv'
<1>w. writer' \in Working
  BY NewWork DEF Begin, GoOn
<1>t. Types'
  BY <1>w DEF Begin, IInv, Types, GoOn, session, server
<1> USE IdFacts DEF IInv, Work, GoOn, NoWriter, NoId, session, server, Begin
<1>1. Types'
  BY <1>t
<1>2. KeysInOrder'
  BY DEF KeysInOrder, Types, Keys
<1>3. OneInSession'
  BY DEF OneInSession, Locking
<1>4. Unbound'
  BY DEF Unbound
<1>5. Trusted'
  BY DEF Trusted, Known, Types, KeysInOrder, Keys
<1>6. Aimed'
  BY DEF Aimed, Aiming, Bound, Known, Types, KeysInOrder, Keys
<1>7. RanOnce'
  BY DEF RanOnce
<1>8. ByKey'
  BY DEF ByKey
<1>9. Hit'
  BY DEF Hit, Keyed, RanOnce
<1>10. Done'
  BY DEF Done, RanOnce
<1> QED BY <1>1, <1>2, <1>3, <1>4, <1>5, <1>6, <1>7, <1>8, <1>9, <1>10

\* The series that is split off is a new event.
LEMMA FirstAddKeeps ==
    ASSUME IInv, NEW u \in Uids, FirstAdd(u)
    PROVE  IInv'
<1>w. writer' \in Working
  <2>1. writer \in Working /\ writer.uid \in Uids /\ writer.id \in Ids \cup {NoId}
    BY DEF FirstAdd, IInv, Types, NoWriter, Working
  <2> QED BY <2>1, NewWork DEF FirstAdd, GoOn
<1>t. Types'
  BY <1>w DEF FirstAdd, IInv, Types, GoOn, session, server
<1> USE IdFacts DEF IInv, Work, GoOn, NoWriter, NoId, session, server, FirstAdd
<1>1. Types'
  BY <1>t
<1>2. KeysInOrder'
  BY DEF KeysInOrder, Types, Keys
<1>3. OneInSession'
  BY DEF OneInSession, Locking
<1>4. Unbound'
  BY DEF Unbound
<1>5. Trusted'
  BY DEF Trusted, Known, Types, KeysInOrder, Keys
<1>6. Aimed'
  BY DEF Aimed, Aiming, Bound, Known, Types, KeysInOrder, Keys
<1>7. RanOnce'
  BY DEF RanOnce
<1>8. ByKey'
  BY DEF ByKey
<1>9. Hit'
  BY DEF Hit, Keyed, RanOnce
<1>10. Done'
  BY DEF Done, RanOnce
<1> QED BY <1>1, <1>2, <1>3, <1>4, <1>5, <1>6, <1>7, <1>8, <1>9, <1>10

\* The old series is changed from bindings that the addition left.
LEMMA ThenChangeKeeps ==
    ASSUME IInv, ThenChange
    PROVE  IInv'
<1>w. writer' \in Working /\ writer \in Working
  <2>1. writer \in Working
    BY AtWork DEF ThenChange, IInv
  <2>2. writer.later \in Laters /\ writer.later # NoSource
    BY <2>1 DEF ThenChange, Working
  <2>3. writer.later.uid \in Uids /\ writer.later.id \in Ids \cup {NoId}
    BY <2>2 DEF Laters
  <2> QED BY <2>1, <2>3, NewWork DEF ThenChange
<1>t. Types'
  BY <1>w DEF ThenChange, IInv, Types, session, server
<1>r. Trusted'
  <2>1. writer.does = "add"
    BY <1>w DEF ThenChange, Working
  <2> QED BY <2>1 DEF ThenChange, IInv, Trusted, Known, session, server
<1> USE IdFacts DEF IInv, Work, NoWriter, NoId, session, server, ThenChange
<1>1. Types'
  BY <1>t
<1>2. KeysInOrder'
  BY DEF KeysInOrder, Types, Keys
<1>3. OneInSession'
  BY DEF OneInSession, Locking
<1>4. Unbound'
  BY DEF Unbound
<1>5. Trusted'
  BY <1>r
<1>6. Aimed'
  BY DEF Aimed, Aiming, Bound, Known, Types, KeysInOrder, Keys
<1>7. RanOnce'
  BY DEF RanOnce
<1>8. ByKey'
  BY DEF ByKey
<1>9. Hit'
  BY DEF Hit, Keyed, RanOnce
<1>10. Done'
  BY DEF Done, RanOnce
<1> QED BY <1>1, <1>2, <1>3, <1>4, <1>5, <1>6, <1>7, <1>8, <1>9, <1>10

\* A scan forgets all bindings and gets a first key.
LEMMA ResolveKeeps == ASSUME IInv, Resolve PROVE IInv'
<1> DEFINE w == Scanning("find", writer)
<1>a. /\ writer \in Working /\ writer.at = "resolve" /\ agenda' = agenda /\ agenda = NoScan
      /\ StartScan(w)
  BY AtWork DEF Resolve, IInv, MutexFree, OneInSession, Locking
<1>b. /\ w \in Working /\ w.does = writer.does /\ w.uid = writer.uid
      /\ w.at = "find" /\ w.then = writer.then
  <2>1. "find" \in Stages
    BY DEF Stages
  <2>2. Same(w, writer) /\ w.at = "find" /\ w.then = writer.then
    BY <1>a, <2>1, ScanningForm
  <2> QED BY <2>2 DEF Same
<1> HIDE DEF w
<1>c. /\ srv' \in [last : Keys, now : Keys, before : Keys] /\ box' = box /\ number' \in Numbering
      /\ srv'.last = srv.last + 1 /\ srv'.now = srv.last + 1 /\ srv'.before = 0
      /\ bindings' \in [Uids -> [id : Ids \cup {NoId}, key : Keys]]
      /\ \A u \in Uids : bindings'[u].id = NoId /\ bindings'[u].key = 0
      /\ \/ /\ writer' = w /\ ran' = ran /\ overtaken' = overtaken
            /\ key' = srv.last + 1 /\ key' \in Keys
         \/ /\ writer' = NoWriter /\ ran' = {} /\ overtaken' = FALSE
            /\ key' = 0 /\ key' \in Keys
  BY <1>a, <1>b, StartScanFacts DEF IInv
<1> USE <1>a, <1>b, <1>c, IdFacts DEF IInv, NoWriter, NoId
<1>1. Types'
  BY DEF Types, NoWriter
<1>2. KeysInOrder'
  BY DEF KeysInOrder, Types, Keys
<1>3. OneInSession'
  BY DEF OneInSession
<1>4. Unbound'
  BY DEF Unbound, Types
<1>5. Trusted'
  BY DEF Trusted, Types
<1>6. Aimed'
  BY DEF Aimed, Aiming, Bound, Types
<1>7. RanOnce'
  BY DEF RanOnce, Types
<1>8. ByKey'
  BY DEF ByKey
<1>9. Hit'
  BY DEF Hit, Keyed, RanOnce, Types
<1>10. Done'
  BY DEF Done, Types
<1> QED BY <1>1, <1>2, <1>3, <1>4, <1>5, <1>6, <1>7, <1>8, <1>9, <1>10

\* The item an id names is read before the id is used.
LEMMA FetchKeeps == ASSUME IInv, Fetch PROVE IInv'
<1>a. /\ writer \in Working /\ writer.at = "fetch" /\ agenda = NoScan /\ agenda' = agenda
      /\ box' = box /\ number' = number /\ srv' = srv /\ key' = key /\ bindings' = bindings
  BY AtWork DEF Fetch, IInv, MutexFree, session, server
<1>b. \/ /\ writer' = NoWriter /\ ran' = {} /\ overtaken' = FALSE
      \/ /\ writer' \in Working /\ writer'.at = writer.then /\ writer'.does = writer.does
         /\ writer'.uid = writer.uid /\ writer'.id = writer.id /\ writer'.then = writer.then
         /\ writer.then \in {"check", "ready", "done"} /\ writer.uid \in box /\ number[writer.uid] = writer.id
         /\ ran' = ran /\ overtaken' = overtaken
  <2>1. CASE Named(writer.id) = {writer.uid}
    <3>1. writer.then \in {"check", "ready", "done"} /\ writer.then \in Stages
      BY <1>a DEF Working, Stages
    <3> DEFINE w == [writer EXCEPT !.at = writer.then]
    <3>2. Same(w, writer) /\ w.at = writer.then /\ w.id = writer.id /\ w.then = writer.then
      BY <1>a, <3>1, PlacedForm
    <3>3. writer' = w /\ ran' = ran /\ overtaken' = overtaken
      BY <2>1 DEF Fetch, GoOn
    <3> HIDE DEF w
    <3>4. writer.uid \in box /\ number[writer.uid] = writer.id
      BY <2>1 DEF Named
    <3> QED BY <3>1, <3>2, <3>3, <3>4 DEF Same
  <2>2. CASE Named(writer.id) # {writer.uid}
    BY <2>2 DEF Fetch, StopWriter
  <2> QED BY <2>1, <2>2
<1> USE IdFacts, <1>a, <1>b DEF IInv, NoWriter, NoId
<1>1. Types'
  BY DEF Types, NoWriter
<1>2. KeysInOrder'
  BY DEF KeysInOrder, Types, Keys
<1>3. OneInSession'
  BY DEF OneInSession, Locking
<1>4. Unbound'
  BY DEF Unbound, Types
<1>5. Trusted'
  BY DEF Trusted, Types, Known
<1>6. Aimed'
  BY DEF Aimed, Aiming, Bound, Types, Known
<1>7. RanOnce'
  BY DEF RanOnce, Types
<1>8. ByKey'
  BY DEF ByKey
<1>9. Hit'
  BY DEF Hit, Keyed, RanOnce, Types
<1>10. Done'
  BY DEF Done, RanOnce, ByKey, Types
<1> QED BY <1>1, <1>2, <1>3, <1>4, <1>5, <1>6, <1>7, <1>8, <1>9, <1>10

\* A binding with the key of the collection leads to its event.
LEMMA CheckKeeps == ASSUME IInv, Check PROVE IInv'
<1>a. /\ writer \in Working /\ writer.at = "check" /\ agenda = NoScan /\ agenda' = agenda
      /\ box' = box /\ number' = number /\ srv' = srv /\ key' = key /\ bindings' = bindings
      /\ ran' = ran /\ overtaken' = overtaken
  BY AtWork DEF Check, IInv, MutexFree, GoOn, session, server
<1>b. /\ writer' \in Working /\ writer'.does = writer.does
      /\ writer'.uid = writer.uid /\ writer'.id = writer.id /\ writer'.then = "ready"
      /\ IF Reusable THEN writer'.at = "ready" ELSE writer'.at = "resolve"
  <2>1. CASE Reusable
    <3> DEFINE w == [writer EXCEPT !.at = "ready", !.then = "ready"]
    <3>1. Same(w, writer) /\ w.at = "ready" /\ w.id = writer.id /\ w.then = "ready"
      BY <1>a DEF Same, Working, Stages
    <3>2. writer' = w
      BY <2>1 DEF Check, GoOn
    <3> HIDE DEF w
    <3> QED BY <2>1, <3>1, <3>2 DEF Same
  <2>2. CASE ~Reusable
    <3> DEFINE w == [writer EXCEPT !.at = "resolve", !.then = "ready"]
    <3>1. Same(w, writer) /\ w.at = "resolve" /\ w.id = writer.id /\ w.then = "ready"
      BY <1>a DEF Same, Working, Stages
    <3>2. writer' = w
      BY <2>2 DEF Check, GoOn
    <3> HIDE DEF w
    <3> QED BY <2>2, <3>1, <3>2 DEF Same
  <2> QED BY <2>1, <2>2
<1>c. Reusable => key # 0 /\ (Known(key) => number[writer.uid] = writer.id /\ key = srv.now)
  BY <1>a DEF Reusable, IInv, Trusted, Working
<1> USE IdFacts, <1>a, <1>b, <1>c DEF IInv, NoWriter, NoId
<1>1. Types'
  BY DEF Types, NoWriter
<1>2. KeysInOrder'
  BY DEF KeysInOrder, Types, Keys
<1>3. OneInSession'
  BY DEF OneInSession, Locking
<1>4. Unbound'
  BY DEF Unbound, Types
<1>5. Trusted'
  BY DEF Trusted, Types, Known
<1>6. Aimed'
  BY DEF Aimed, Aiming, Bound, Types, Known
<1>7. RanOnce'
  BY DEF RanOnce, Types
<1>8. ByKey'
  BY DEF ByKey
<1>9. Hit'
  BY DEF Hit, Keyed, RanOnce, Types
<1>10. Done'
  BY DEF Done, RanOnce, ByKey, Types
<1> QED BY <1>1, <1>2, <1>3, <1>4, <1>5, <1>6, <1>7, <1>8, <1>9, <1>10

\* A lost page leaves the key before the last with the session.
LEMMA LosePageKeeps ==
    ASSUME IInv, LosePage
    PROVE  IInv'
<1> USE IdFacts DEF IInv, NoWriter, NoId, session, LosePage, Tell, NextKey
<1>1. Types'
  BY DEF Types, Keys
<1>2. KeysInOrder'
  BY DEF KeysInOrder, Types, Keys
<1>3. OneInSession'
  BY DEF OneInSession, Locking
<1>4. Unbound'
  BY DEF Unbound
<1>5. Trusted'
  BY DEF Trusted, Unbound, Known, Types, KeysInOrder, Keys
<1>6. Aimed'
  BY DEF Aimed, Aiming, Bound, Known, Types, KeysInOrder, Keys
<1>7. RanOnce'
  BY DEF RanOnce
<1>8. ByKey'
  BY DEF ByKey
<1>9. Hit'
  BY DEF Hit, Keyed, RanOnce
<1>10. Done'
  BY DEF Done, RanOnce
<1> QED BY <1>1, <1>2, <1>3, <1>4, <1>5, <1>6, <1>7, <1>8, <1>9, <1>10

\* A collection without a key gets one, and only additions meet that.
LEMMA LockKeeps == ASSUME IInv, Lock PROVE IInv'
<1>a. /\ writer \in Working /\ writer.at = "ready" /\ agenda = NoScan /\ agenda' = agenda
      /\ box' = box /\ bindings' = bindings
  BY AtWork, StartOverFacts DEF Lock, IInv, MutexFree, server
<1>b. \/ /\ writer' = NoWriter /\ ran' = {} /\ overtaken' = FALSE
      \/ /\ writer' \in Working /\ writer'.at = "send" /\ writer'.does = writer.does
         /\ writer'.uid = writer.uid /\ writer'.id = writer.id
         /\ ran' = ran /\ overtaken' = overtaken
  <2> DEFINE w == [writer EXCEPT !.at = "send"]
  <2>1. "send" \in Stages
    BY DEF Stages
  <2>2. Same(w, writer) /\ w.at = "send" /\ w.id = writer.id
    BY <1>a, <2>1, PlacedForm
  <2>3. \/ writer' = w /\ ran' = ran /\ overtaken' = overtaken
        \/ writer' = NoWriter /\ ran' = {} /\ overtaken' = FALSE
    BY DEF Lock, Hears, GoOn, StopWriter
  <2> HIDE DEF w
  <2> QED BY <2>2, <2>3 DEF Same
<1>c. \/ key # 0 /\ key' = key /\ srv' = srv /\ number' = number
      \/ /\ key = 0 /\ key' \in {0, srv.last + 1} /\ key' \in Keys /\ number' \in Numbering
         /\ srv' \in [last : Keys, now : Keys, before : Keys]
         /\ srv'.last = srv.last + 1 /\ srv'.now = srv.last + 1 /\ srv'.before = 0
  BY StartOverFacts DEF Lock, Hears, server, IInv, Types
<1>d. /\ writer.does # "respond"
      /\ writer.does \in {"change", "delete"} /\ ~overtaken => key # 0
  BY <1>a DEF Lock, IInv, Aimed, Aiming, Bound
<1> USE IdFacts, <1>a, <1>b, <1>c, <1>d DEF IInv, NoWriter, NoId
<1>1. Types'
  BY DEF Types, NoWriter
<1>2. KeysInOrder'
  BY DEF KeysInOrder, Types, Keys
<1>3. OneInSession'
  BY DEF OneInSession, Locking
<1>4. Unbound'
  BY DEF Unbound, Types
<1>5. Trusted'
  BY DEF Trusted, Types, Known
<1>6. Aimed'
  BY DEF Aimed, Aiming, Bound, Types, Known
<1>7. RanOnce'
  BY DEF RanOnce, Types
<1>8. ByKey'
  BY DEF ByKey
<1>9. Hit'
  BY DEF Hit, Keyed, RanOnce, Types
<1>10. Done'
  BY DEF Done, RanOnce, ByKey, Types
<1> QED BY <1>1, <1>2, <1>3, <1>4, <1>5, <1>6, <1>7, <1>8, <1>9, <1>10

\* Exchange acts on the event that the id names, or answers from memory.
LEMMA ConfirmKeeps == ASSUME IInv, Confirm PROVE IInv'
<1>a. /\ writer \in Working /\ writer.at \in {"send", "again"} /\ agenda = NoScan /\ agenda' = agenda
      /\ number' = number /\ overtaken' = overtaken /\ key' = srv'.now /\ Known(key)
  BY AtWork DEF Confirm, IInv, OneInSession, Locking
<1>b. /\ writer' \in Working /\ writer'.does = writer.does /\ writer'.uid = writer.uid
      /\ IF writer.does = "add" THEN writer'.at = "resolve" ELSE writer'.at = "done"
  <2>1. CASE writer.does = "add"
    <3> DEFINE w == [writer EXCEPT !.at = "resolve", !.then = "done"]
    <3>1. Same(w, writer) /\ w.at = "resolve"
      BY <1>a DEF Same, Working, Stages
    <3>2. writer' = w
      BY <2>1 DEF Confirm, Afterwards
    <3> HIDE DEF w
    <3> QED BY <2>1, <3>1, <3>2 DEF Same
  <2>2. CASE writer.does # "add"
    <3> DEFINE w == [writer EXCEPT !.at = "done"]
    <3>1. "done" \in Stages
      BY DEF Stages
    <3>2. Same(w, writer) /\ w.at = "done"
      BY <1>a, <3>1, PlacedForm
    <3>3. writer' = w
      BY <2>2 DEF Confirm, Afterwards
    <3> HIDE DEF w
    <3> QED BY <2>2, <3>2, <3>3 DEF Same
  <2> QED BY <2>1, <2>2
<1>c. /\ srv' \in [last : Keys, now : Keys, before : Keys]
      /\ srv'.now <= srv'.last /\ srv.last <= srv'.last
      /\ srv'.before = 0 \/ srv'.before < srv'.now
  <2>1. CASE Executes(key)
    <3>1. NextKey(key)
      BY <2>1 DEF Executes
    <3> QED BY <3>1, NextKeyFacts, IdFacts DEF IInv, Types, KeysInOrder, Keys
  <2>2. CASE Repeats(key)
    BY <2>2, IdFacts DEF Repeats, IInv, Types, KeysInOrder, Keys
  <2> QED BY <2>1, <2>2 DEF Confirm
<1>d. \/ /\ writer.does = "add"
         /\ box' = box \cup {writer.uid} /\ ran' = ran \cup {writer.uid}
      \/ /\ writer.does # "add"
         /\ box' \subseteq box
         /\ \E u \in box : number[u] = writer.id /\ ran' = ran \cup {u}
      \/ box' = box /\ ran' = ran /\ key = srv.before
  BY DEF Confirm, Executes, Execute, Named, Repeats
<1>e. /\ bindings' \in [Uids -> [id : Ids \cup {NoId}, key : Keys]]
      /\ \A u \in Uids : bindings'[u].key \in {0, srv'.now}
  <2>1. srv'.now \in Keys /\ 0 \in Keys /\ writer.id \in Ids \cup {NoId}
    BY <1>a, <1>c, IdFacts DEF Working, Keys
  <2> QED BY <2>1 DEF Confirm, Nowhere
<1>f. writer.does \in {"change", "delete"} /\ ~overtaken => key = srv.now /\ number[writer.uid] = writer.id
  BY <1>a DEF IInv, Aimed, Aiming
<1>g. key # srv.now \/ key # srv.before
  BY <1>a, IdFacts DEF Known, IInv, KeysInOrder, Types, Keys
<1>h. \A u, v \in Uids : number[u] = number[v] => u = v
  BY NumberingFacts DEF IInv, Types
<1>i. writer.uid \in Uids /\ writer.does \in {"add", "change", "delete", "respond"}
  BY <1>a DEF Working
<1>j. writer.does # "respond"
  BY <1>a DEF IInv, ByKey
<1> USE IdFacts, <1>a, <1>b, <1>c, <1>d, <1>e, <1>f, <1>g, <1>h, <1>i, <1>j DEF IInv, NoWriter, NoId
<1>1. Types'
  BY DEF Types, NoWriter
<1>2. KeysInOrder'
  <2>1. /\ srv'.now \in Int /\ srv'.last \in Int /\ 0 <= srv'.last
        /\ srv'.now <= srv'.last
        /\ srv'.before = 0 \/ srv'.before < srv'.now
    BY <1>c DEF Keys
  <2>2. \A u \in Uids : bindings'[u].key <= srv'.last
    BY <1>e, <2>1
  <2> QED BY <1>a, <2>1, <2>2 DEF KeysInOrder
<1>3. OneInSession'
  BY DEF OneInSession, Locking
<1>4. Unbound'
  BY DEF Unbound, Types
<1>5. Trusted'
  BY DEF Trusted, Types, Known
<1>6. Aimed'
  BY DEF Aimed, Aiming, Bound, Types, Known
<1>7. RanOnce'
  BY DEF RanOnce, Types
<1>8. ByKey'
  BY DEF ByKey
<1>9. Hit'
  BY DEF Hit, Keyed, RanOnce, Types
<1>10. Done'
  BY DEF Done, RanOnce, ByKey, Types
<1> QED BY <1>1, <1>2, <1>3, <1>4, <1>5, <1>6, <1>7, <1>8, <1>9, <1>10

\* A request whose answer is lost ends the call.
LEMMA LoseAnswerKeeps == ASSUME IInv, LoseAnswer PROVE IInv'
<1>a. /\ writer' = NoWriter /\ ran' = {} /\ overtaken' = FALSE /\ agenda' = agenda
      /\ number' = number /\ key' = key /\ bindings' = bindings /\ writer.at \in Locking
  BY DEF LoseAnswer, StopWriter, session, Locking
<1>b. writer \in Working
  BY <1>a, AtWork DEF IInv, Locking
<1>c. box' \subseteq Uids
  BY <1>b DEF LoseAnswer, Named, Working, IInv, Types
<1>d. /\ srv' \in [last : Keys, now : Keys, before : Keys]
      /\ srv'.last = srv.last + 1 /\ srv'.now = srv.last + 1 /\ srv'.before = key
  BY NextKeyFacts DEF LoseAnswer, IInv, Types
<1> USE IdFacts, <1>a, <1>c, <1>d DEF IInv, NoWriter, NoId
<1>1. Types'
  BY DEF Types, NoWriter
<1>2. KeysInOrder'
  BY DEF KeysInOrder, Types, Keys
<1>3. OneInSession'
  BY DEF OneInSession, Locking
<1>4. Unbound'
  BY DEF Unbound, Types
<1>5. Trusted'
  BY DEF Trusted, Types, Known
<1>6. Aimed'
  BY DEF Aimed, Aiming, Bound, Types, Known
<1>7. RanOnce'
  BY DEF RanOnce, Types
<1>8. ByKey'
  BY DEF ByKey
<1>9. Hit'
  BY DEF Hit, Keyed, RanOnce, Types
<1>10. Done'
  BY DEF Done, RanOnce, ByKey, Types
<1> QED BY <1>1, <1>2, <1>3, <1>4, <1>5, <1>6, <1>7, <1>8, <1>9, <1>10

\* After a rejected key the event is found again, unless it is to be added.
LEMMA RecoverKeeps == ASSUME IInv, Recover PROVE IInv'
<1> DEFINE w == Scanning((IF writer.does = "add" THEN "again" ELSE "retry"), writer)
<1>a. /\ writer \in Working /\ writer.at = "send" /\ agenda' = agenda /\ agenda = NoScan
      /\ StartScan(w)
  BY AtWork DEF Recover, IInv, MutexFree, OneInSession, Locking
<1>b. /\ w \in Working /\ w.does = writer.does /\ w.uid = writer.uid
      /\ IF writer.does = "add" THEN w.at = "again" ELSE w.at = "retry"
  <2> DEFINE st == IF writer.does = "add" THEN "again" ELSE "retry"
  <2>1. st \in Stages
    BY DEF Stages
  <2>2. Same(Scanning(st, writer), writer) /\ Scanning(st, writer).at = st
    BY <1>a, <2>1, ScanningForm
  <2> QED BY <2>2 DEF Same
<1> HIDE DEF w
<1>c. /\ srv' \in [last : Keys, now : Keys, before : Keys] /\ box' = box /\ number' \in Numbering
      /\ srv'.last = srv.last + 1 /\ srv'.now = srv.last + 1 /\ srv'.before = 0
      /\ bindings' \in [Uids -> [id : Ids \cup {NoId}, key : Keys]]
      /\ \A u \in Uids : bindings'[u].id = NoId /\ bindings'[u].key = 0
      /\ \/ /\ writer' = w /\ ran' = ran /\ overtaken' = overtaken
            /\ key' = srv.last + 1 /\ key' \in Keys
         \/ /\ writer' = NoWriter /\ ran' = {} /\ overtaken' = FALSE
            /\ key' = 0 /\ key' \in Keys
  BY <1>a, <1>b, StartScanFacts DEF IInv
<1> USE <1>a, <1>b, <1>c, IdFacts DEF IInv, NoWriter, NoId
<1>1. Types'
  BY DEF Types, NoWriter
<1>2. KeysInOrder'
  BY DEF KeysInOrder, Types, Keys
<1>3. OneInSession'
  BY DEF OneInSession
<1>4. Unbound'
  BY DEF Unbound, Types
<1>5. Trusted'
  BY DEF Trusted, Types
<1>6. Aimed'
  BY DEF Aimed, Aiming, Bound, Types
<1>7. RanOnce'
  BY DEF RanOnce, Types
<1>8. ByKey'
  BY DEF ByKey
<1>9. Hit'
  BY DEF Hit, Keyed, RanOnce, Types
<1>10. Done'
  BY DEF Done, Types
<1> QED BY <1>1, <1>2, <1>3, <1>4, <1>5, <1>6, <1>7, <1>8, <1>9, <1>10

\* A meeting response carries no key.
LEMMA RespondKeeps ==
    ASSUME IInv, Respond
    PROVE  IInv'
<1>w. writer' \in Working
  <2>1. writer \in Working /\ "done" \in Stages
    BY AtWork DEF Respond, IInv, Stages
  <2>2. Same([writer EXCEPT !.at = "done"], writer)
    BY <2>1, PlacedForm
  <2> QED BY <2>2 DEF Respond, Same
<1> USE IdFacts DEF IInv, NoWriter, NoId, session, server, MutexFree, Respond, Named
<1>1. Types'
  BY <1>w DEF Types, Keys
<1>2. KeysInOrder'
  BY DEF KeysInOrder, Types, Keys
<1>3. OneInSession'
  BY DEF OneInSession, Locking
<1>4. Unbound'
  BY DEF Unbound
<1>5. Trusted'
  BY DEF Trusted, Known, Types, KeysInOrder, Keys
<1>6. Aimed'
  BY DEF Aimed, Aiming, Bound, Known, Types, KeysInOrder, Keys
<1>7. RanOnce'
  BY DEF RanOnce
<1>8. ByKey'
  BY DEF ByKey
<1>9. Hit'
  BY DEF Hit, Keyed, RanOnce
<1>10. Done'
  BY DEF Done, RanOnce
<1> QED BY <1>1, <1>2, <1>3, <1>4, <1>5, <1>6, <1>7, <1>8, <1>9, <1>10

\* Whoever ends leaves bindings behind that nobody trusts.
LEMMA EndKeeps ==
    ASSUME IInv, End
    PROVE  IInv'
<1> USE IdFacts DEF IInv, StopWriter, NoWriter, NoId, session, server, End
<1>1. Types'
  BY DEF Types, Keys
<1>2. KeysInOrder'
  BY DEF KeysInOrder, Types, Keys
<1>3. OneInSession'
  BY DEF OneInSession, Locking
<1>4. Unbound'
  BY DEF Unbound
<1>5. Trusted'
  BY DEF Trusted, Known, Types, KeysInOrder, Keys
<1>6. Aimed'
  BY DEF Aimed, Aiming, Bound, Known, Types, KeysInOrder, Keys
<1>7. RanOnce'
  BY DEF RanOnce
<1>8. ByKey'
  BY DEF ByKey
<1>9. Hit'
  BY DEF Hit, Keyed, RanOnce
<1>10. Done'
  BY DEF Done, RanOnce
<1> QED BY <1>1, <1>2, <1>3, <1>4, <1>5, <1>6, <1>7, <1>8, <1>9, <1>10

\* The page that has the event binds it to the key the page leads to.
LEMMA FindPageKeeps == ASSUME IInv, NEW changes \in SUBSET Uids, FindPage(changes) PROVE IInv'
<1>a. /\ writer \in Working /\ writer.at \in {"find", "retry"} /\ agenda = NoScan /\ agenda' = agenda
      /\ key' = srv'.now /\ Tell(key, changes) /\ Known(key)
  BY AtWork DEF FindPage, IInv, OneInSession, Locking, Tell
<1>b. /\ box' = box /\ number' = number
      /\ srv' \in [last : Keys, now : Keys, before : Keys]
      /\ srv'.now <= srv'.last /\ srv.last <= srv'.last /\ srv'.now # 0
      /\ srv'.before = 0 \/ srv'.before < srv'.now
  BY <1>a, TellFacts DEF IInv
<1>c. /\ writer.uid \in Uids /\ number \in [Uids -> Ids] /\ srv'.now \in Keys
      /\ \A u \in Uids : bindings[u].id = NoId
  BY <1>a, <1>b, NumberingFacts DEF Working, IInv, Types, Unbound
<1>d. \/ /\ writer' \in Working /\ writer'.does = writer.does /\ writer'.uid = writer.uid
         /\ IF writer.at = "find" THEN writer'.at = "fetch" ELSE writer'.at = "again"
         /\ writer'.then = writer.then
         /\ writer'.id = number[writer.uid]
         /\ ran' = ran /\ overtaken' = overtaken
         /\ bindings' = [bindings EXCEPT ![writer.uid] = [id |-> number[writer.uid], key |-> srv'.now]]
      \/ /\ writer' \in Working /\ writer'.does = writer.does /\ writer'.uid = writer.uid
         /\ writer'.at = writer.at /\ writer'.then = writer.then
         /\ ran' = ran /\ overtaken' = overtaken /\ bindings' = bindings
      \/ writer' = NoWriter /\ ran' = {} /\ overtaken' = FALSE /\ bindings' = bindings
  <2>1. CASE writer.uid \in changes
    <3> DEFINE w == [writer EXCEPT !.at = IF writer.at = "find" THEN "fetch" ELSE "again",
                                   !.id = number[writer.uid]]
    <3>1. /\ Same(w, writer) /\ w.id = number[writer.uid] /\ w.then = writer.then
          /\ IF writer.at = "find" THEN w.at = "fetch" ELSE w.at = "again"
      <4>1. number[writer.uid] \in Ids
        BY <1>c
      <4>2. CASE writer.at = "find"
        BY <1>a, <4>1, <4>2 DEF Same, Working, Stages
      <4>3. CASE writer.at # "find"
        BY <1>a, <4>1, <4>3 DEF Same, Working, Stages
      <4> QED BY <4>2, <4>3
    <3>2. writer' = w /\ ran' = ran /\ overtaken' = overtaken
      BY <2>1 DEF FindPage, GoOn, Found
    <3>3. bindings' = [bindings EXCEPT ![writer.uid] = [id |-> number[writer.uid], key |-> srv'.now]]
      BY <2>1 DEF FindPage
    <3> HIDE DEF w
    <3> QED BY <3>1, <3>2, <3>3 DEF Same
  <2>2. CASE writer.uid \notin changes
    <3> DEFINE w == [writer EXCEPT !.told = writer.told \cup changes, !.pages = @ + 1]
    <3>1. writer.told \cup changes \in SUBSET Uids
      BY <1>a DEF Working
    <3>2. Same(w, writer) /\ w.at = writer.at /\ w.then = writer.then
      BY <1>a, <3>1, TurnedForm
    <3>3. \/ writer' = w /\ ran' = ran /\ overtaken' = overtaken /\ bindings' = bindings
          \/ writer' = NoWriter /\ ran' = {} /\ overtaken' = FALSE /\ bindings' = bindings
      BY <2>2 DEF FindPage, GoOn, StopWriter
    <3> HIDE DEF w
    <3> QED BY <3>2, <3>3 DEF Same
  <2> QED BY <2>1, <2>2
<1>e. /\ bindings' \in [Uids -> [id : Ids \cup {NoId}, key : Keys]]
      /\ \A u \in Uids : bindings'[u].key \in {bindings[u].key, srv'.now}
      /\ writer'.at \in {"fetch", "again"} =>
            /\ bindings'[writer.uid].id = number[writer.uid] /\ bindings'[writer.uid].key = srv'.now
            /\ \A u \in Uids \ {writer.uid} : bindings'[u].id = NoId
      /\ writer'.at \in {"find", "retry"} => bindings' = bindings
  BY <1>a, <1>c, <1>d DEF IInv, Types, NoWriter
<1> USE IdFacts, <1>a, <1>b, <1>c, <1>d, <1>e DEF IInv, NoWriter, NoId
<1>1. Types'
  BY DEF Types, NoWriter
<1>2. KeysInOrder'
  BY DEF KeysInOrder, Types, Keys
<1>3. OneInSession'
  BY DEF OneInSession, Locking
<1>4. Unbound'
  BY DEF Unbound, Types
<1>5. Trusted'
  BY DEF Trusted, Types, Known
<1>6. Aimed'
  BY DEF Aimed, Aiming, Bound, Types, Known
<1>7. RanOnce'
  BY DEF RanOnce, Types
<1>8. ByKey'
  BY DEF ByKey
<1>9. Hit'
  BY DEF Hit, Keyed, RanOnce, Types
<1>10. Done'
  BY DEF Done, RanOnce, ByKey, Types
<1> QED BY <1>1, <1>2, <1>3, <1>4, <1>5, <1>6, <1>7, <1>8, <1>9, <1>10

\* A page of the agenda moves the key on, with no bindings in place.
LEMMA AgendaPageKeeps ==
    ASSUME IInv, NEW changes \in SUBSET Uids, AgendaPage(changes)
    PROVE  IInv'
<1> USE IdFacts DEF IInv, NoWriter, NoScan, NoId, AgendaPage, Tell, NextKey
<1>1. Types'
  BY DEF Types, Keys
<1>2. KeysInOrder'
  BY DEF KeysInOrder, Types, Keys
<1>3. OneInSession'
  BY DEF OneInSession, Locking
<1>4. Unbound'
  BY DEF Unbound
<1>5. Trusted'
  BY DEF Trusted, Unbound, Known, Types, KeysInOrder, Keys
<1>6. Aimed'
  BY DEF Aimed, Aiming, Bound, Known, Types, KeysInOrder, Keys
<1>7. RanOnce'
  BY DEF RanOnce
<1>8. ByKey'
  BY DEF ByKey
<1>9. Hit'
  BY DEF Hit, Keyed, RanOnce
<1>10. Done'
  BY DEF Done, RanOnce
<1> QED BY <1>1, <1>2, <1>3, <1>4, <1>5, <1>6, <1>7, <1>8, <1>9, <1>10

\* A scan of the agenda is noticed by a writer that is bound.
LEMMA StartAgendaKeeps ==
    ASSUME IInv, StartAgenda
    PROVE  IInv'
<1> USE IdFacts DEF IInv, NoWriter, NoScan, NoId, MutexFree, Nowhere, StartAgenda, ResetBindings, StartOver, NextKey
<1>1. Types'
  BY DEF Types, Keys
<1>2. KeysInOrder'
  BY DEF KeysInOrder, Types, Keys
<1>3. OneInSession'
  BY DEF OneInSession, Locking
<1>4. Unbound'
  BY DEF Unbound
<1>5. Trusted'
  BY DEF Trusted, Known, Types, KeysInOrder, Keys
<1>6. Aimed'
  BY DEF Aimed, Aiming, Bound, Known, Types, KeysInOrder, Keys
<1>7. RanOnce'
  BY DEF RanOnce
<1>8. ByKey'
  BY DEF ByKey
<1>9. Hit'
  BY DEF Hit, Keyed, RanOnce
<1>10. Done'
  BY DEF Done, RanOnce
<1> QED BY <1>1, <1>2, <1>3, <1>4, <1>5, <1>6, <1>7, <1>8, <1>9, <1>10

\* A page that ends the agenda may be lost.
LEMMA EndAgendaKeeps ==
    ASSUME IInv, EndAgenda
    PROVE  IInv'
<1> USE IdFacts DEF IInv, NoWriter, NoScan, NoId, session, server, EndAgenda, Tell, NextKey
<1>1. Types'
  BY DEF Types, Keys
<1>2. KeysInOrder'
  BY DEF KeysInOrder, Types, Keys
<1>3. OneInSession'
  BY DEF OneInSession, Locking
<1>4. Unbound'
  BY DEF Unbound
<1>5. Trusted'
  BY DEF Trusted, Unbound, Known, Types, KeysInOrder, Keys
<1>6. Aimed'
  BY DEF Aimed, Aiming, Bound, Known, Types, KeysInOrder, Keys
<1>7. RanOnce'
  BY DEF RanOnce
<1>8. ByKey'
  BY DEF ByKey
<1>9. Hit'
  BY DEF Hit, Keyed, RanOnce
<1>10. Done'
  BY DEF Done, RanOnce
<1> QED BY <1>1, <1>2, <1>3, <1>4, <1>5, <1>6, <1>7, <1>8, <1>9, <1>10

\* Another process makes every known key unknown.
LEMMA OtherSessionKeeps ==
    ASSUME IInv, OtherSession
    PROVE  IInv'
<1> USE IdFacts DEF IInv, NoWriter, NoId, session, OtherSession, StartOver, NextKey
<1>1. Types'
  BY DEF Types, Keys
<1>2. KeysInOrder'
  BY DEF KeysInOrder, Types, Keys
<1>3. OneInSession'
  BY DEF OneInSession, Locking
<1>4. Unbound'
  BY DEF Unbound
<1>5. Trusted'
  BY DEF Trusted, Known, Types, KeysInOrder, Keys
<1>6. Aimed'
  BY DEF Aimed, Aiming, Bound, Known, Types, KeysInOrder, Keys
<1>7. RanOnce'
  BY DEF RanOnce
<1>8. ByKey'
  BY DEF ByKey
<1>9. Hit'
  BY DEF Hit, Keyed, RanOnce
<1>10. Done'
  BY DEF Done, RanOnce
<1> QED BY <1>1, <1>2, <1>3, <1>4, <1>5, <1>6, <1>7, <1>8, <1>9, <1>10

----
(* The theorems *)

\* A new session binds nothing, and nobody writes.
LEMMA InitIInv == Init => IInv
<1> SUFFICES ASSUME Init PROVE IInv
  OBVIOUS
<1>1. Types
  <2>1. 0 \in Keys /\ Nowhere \in [id : Ids \cup {NoId}, key : Keys]
    BY IdFacts DEF Keys, Nowhere
  <2>2. bindings \in [Uids -> [id : Ids \cup {NoId}, key : Keys]]
    BY <2>1 DEF Init
  <2> QED BY <2>1, <2>2 DEF Init, Types
<1>2. KeysInOrder
  BY DEF Init, KeysInOrder, Nowhere
<1>3. OneInSession /\ Unbound /\ Trusted /\ Aimed
  BY DEF Init, OneInSession, Unbound, Trusted, Aimed, Aiming, NoWriter
<1>4. RanOnce /\ ByKey /\ Hit /\ Done
  BY DEF Init, RanOnce, ByKey, Hit, Keyed, Done, NoWriter
<1> QED BY <1>1, <1>2, <1>3, <1>4 DEF IInv

\* Every step of a writer, a scan or another process keeps ids trustworthy.
LEMMA StepIInv == IInv /\ [Next]_vars => IInv'
<1> SUFFICES ASSUME IInv, [Next]_vars PROVE IInv'
  OBVIOUS
<1>1. ASSUME NEW u \in Uids, NEW kind \in {"add", "change", "delete", "respond"}, Begin(kind, u)
      PROVE  IInv'
  BY <1>1, BeginKeeps
<1>2. ASSUME NEW u \in Uids, FirstAdd(u) PROVE IInv'
  BY <1>2, FirstAddKeeps
<1>3. CASE ThenChange \/ Resolve \/ Fetch \/ Check \/ LosePage \/ Lock
  BY <1>3, ThenChangeKeeps, ResolveKeeps, FetchKeeps, CheckKeeps, LosePageKeeps, LockKeeps
<1>4. CASE Confirm \/ LoseAnswer \/ Recover \/ Respond \/ End
  BY <1>4, ConfirmKeeps, LoseAnswerKeeps, RecoverKeeps, RespondKeeps, EndKeeps
<1>5. ASSUME NEW changes \in SUBSET Uids, FindPage(changes) PROVE IInv'
  BY <1>5, FindPageKeeps
<1>6. ASSUME NEW changes \in SUBSET Uids, AgendaPage(changes) PROVE IInv'
  BY <1>6, AgendaPageKeeps
<1>7. CASE StartAgenda \/ EndAgenda \/ OtherSession
  BY <1>7, StartAgendaKeeps, EndAgendaKeeps, OtherSessionKeeps
<1>8. CASE UNCHANGED vars
  BY <1>8 DEF vars, server, session, IInv, Types, KeysInOrder, OneInSession, Unbound, Trusted, Aimed,
              Aiming, Bound, RanOnce, ByKey, Hit, Keyed, Done, Known
<1> QED BY <1>1, <1>2, <1>3, <1>4, <1>5, <1>6, <1>7, <1>8 DEF Next, Edit

\* In every reachable state, for any mailbox and any number of writers, scans and
\* other processes: ids are right as long as the key they were learnt under is
\* known, and a writer about to change or delete has such an id.
THEOREM Invariance == Spec => []IInv
BY InitIInv, StepIInv, PTL DEF Spec

\* calendar_write.rs: what a writer changes or deletes is the event it was asked
\* to, however ids were assigned anew between its steps, unless a scan of its own
\* process came after the last check of its binding.
THEOREM Mutations == Spec => []MutationsHitTheirEvent
<1>1. IInv => MutationsHitTheirEvent
  BY DEF IInv, Types, OneInSession, Locking, Hit, MutationsHitTheirEvent, TypeOK, Keys
<1> QED BY <1>1, Invariance, PTL

\* A write that ends in success was executed by Exchange, even if the request was
\* taken for a repetition, with the same exception.
THEOREM Executed == Spec => []DoneMeansExecuted
<1>1. IInv => DoneMeansExecuted
  BY DEF IInv, Done, DoneMeansExecuted
<1> QED BY <1>1, Invariance, PTL

(***************************************************************************)
(* Messages about meetings                                                 *)
(***************************************************************************)

\* At most three messages follow each other.
LEMMA ReceivedUnrolled ==
    ASSUME NEW shown, NEW notices, NEW p, Len(notices) \in 0 .. 3,
           NEW first, first = Deliver(shown, notices[1], p),
           NEW second, second = Deliver(first, notices[2], p),
           NEW third, third = Deliver(second, notices[3], p)
    PROVE  Received(shown, notices, p) =
               IF Len(notices) = 0 THEN shown ELSE IF Len(notices) = 1 THEN first
               ELSE IF Len(notices) = 2 THEN second ELSE third
<1> DEFINE equation(f) ==
        f = [n \in 0 .. Len(notices) |-> IF n = 0 THEN shown ELSE Deliver(f[n - 1], notices[n], p)]
<1>1. PICK known : known = [n \in 0 .. Len(notices) |->
                               IF n = 0 THEN shown ELSE IF n = 1 THEN first ELSE IF n = 2 THEN second ELSE third]
  OBVIOUS
<1>2. ASSUME NEW n \in 0 .. Len(notices)
      PROVE  known[n] = IF n = 0 THEN shown ELSE Deliver(known[n - 1], notices[n], p)
  <2>1. CASE n = 0
    BY <1>1, <2>1
  <2>2. CASE n = 1
    BY <1>1, <2>2
  <2>3. CASE n = 2
    BY <1>1, <2>3
  <2>4. CASE n = 3
    BY <1>1, <2>4
  <2> QED
    BY <1>2, <2>1, <2>2, <2>3, <2>4
<1>3. equation(known)
  BY <1>1, <1>2
<1>4. PICK f : f = CHOOSE g : equation(g)
  OBVIOUS
<1>5. equation(f)
  BY <1>3, <1>4
<1>6. Received(shown, notices, p) = f[Len(notices)]
  BY <1>4 DEF Received
<1>7. /\ f[0] = shown
      /\ Len(notices) >= 1 => f[1] = Deliver(f[0], notices[1], p)
      /\ Len(notices) >= 2 => f[2] = Deliver(f[1], notices[2], p)
      /\ Len(notices) >= 3 => f[3] = Deliver(f[2], notices[3], p)
  BY <1>5
<1>8. CASE Len(notices) = 0
  BY <1>6, <1>7, <1>8
<1>9. CASE Len(notices) = 1
  BY <1>6, <1>7, <1>9
<1>10. CASE Len(notices) = 2
  BY <1>6, <1>7, <1>10
<1>11. CASE Len(notices) = 3
  BY <1>6, <1>7, <1>11
<1> QED
  BY <1>8, <1>9, <1>10, <1>11

\* One message, if there is one.
Got(shown, notices, p) == IF notices = <<>> THEN shown ELSE Deliver(shown, notices[1], p)
MayBeOne(notices) == notices = <<>> \/ \E notice : notices = <<notice>>

LEMMA OneIsASequence ==
    ASSUME NEW notices, MayBeOne(notices), NEW S, notices[1] \in S
    PROVE  notices \in Seq(S)
<1>1. CASE notices = <<>>
  BY <1>1
<1>2. ASSUME NEW notice, notices = <<notice>>
      PROVE  notices \in Seq(S)
  <2>1. notice \in S
    BY <1>2
  <2> QED
    BY <1>2, <2>1
<1> QED
  BY <1>1, <1>2 DEF MayBeOne

\* Messages one after the other.
LEMMA ReceivedInTurn ==
    ASSUME NEW shown, NEW p, NEW one, NEW two, NEW three, MayBeOne(one), MayBeOne(two), MayBeOne(three)
    PROVE  /\ Received(shown, one, p) = Got(shown, one, p)
           /\ Received(shown, one \o two, p) = Got(Got(shown, one, p), two, p)
           /\ Received(shown, one \o two \o three, p) = Got(Got(Got(shown, one, p), two, p), three, p)
<1>1. PICK S : one \in Seq(S) /\ two \in Seq(S) /\ three \in Seq(S)
  <2>1. /\ one \in Seq({one[1], two[1], three[1]}) /\ two \in Seq({one[1], two[1], three[1]})
        /\ three \in Seq({one[1], two[1], three[1]})
    BY OneIsASequence
  <2> QED
    BY <2>1
<1>2. /\ Len(one) \in 0 .. 1 /\ (Len(one) = 0 <=> one = <<>>)
      /\ Len(two) \in 0 .. 1 /\ (Len(two) = 0 <=> two = <<>>)
      /\ Len(three) \in 0 .. 1 /\ (Len(three) = 0 <=> three = <<>>)
  BY <1>1 DEF MayBeOne
<1>3. PICK both : both = one \o two
  OBVIOUS
<1>4. /\ both \in Seq(S) /\ Len(both) = Len(one) + Len(two)
      /\ \A n \in 1 .. Len(both) : both[n] = IF n <= Len(one) THEN one[n] ELSE two[n - Len(one)]
  <2>1. /\ one \o two \in Seq(S) /\ Len(one \o two) = Len(one) + Len(two)
        /\ \A n \in 1 .. Len(one) + Len(two) : (one \o two)[n] = IF n <= Len(one) THEN one[n] ELSE two[n - Len(one)]
    BY ONLY <1>1, ConcatProperties
  <2> QED
    BY ONLY <1>3, <2>1
<1>5. PICK all : all = both \o three
  OBVIOUS
<1>6. /\ all \in Seq(S) /\ Len(all) = Len(both) + Len(three)
      /\ \A n \in 1 .. Len(all) : all[n] = IF n <= Len(both) THEN both[n] ELSE three[n - Len(both)]
  <2>0. both \in Seq(S) /\ three \in Seq(S)
    BY ONLY <1>1, <1>4
  <2>1. /\ both \o three \in Seq(S) /\ Len(both \o three) = Len(both) + Len(three)
        /\ \A n \in 1 .. Len(both) + Len(three) :
               (both \o three)[n] = IF n <= Len(both) THEN both[n] ELSE three[n - Len(both)]
    BY ONLY <2>0, ConcatProperties
  <2> QED
    BY ONLY <1>5, <2>1
<1>7. ASSUME NEW notices, Len(notices) \in 0 .. 3
      PROVE  /\ Len(notices) = 0 => Received(shown, notices, p) = shown
             /\ Len(notices) = 1 => Received(shown, notices, p) = Deliver(shown, notices[1], p)
             /\ Len(notices) = 2 =>
                    Received(shown, notices, p) = Deliver(Deliver(shown, notices[1], p), notices[2], p)
             /\ Len(notices) = 3 =>
                    Received(shown, notices, p) =
                        Deliver(Deliver(Deliver(shown, notices[1], p), notices[2], p), notices[3], p)
  BY <1>7, ReceivedUnrolled
<1>8. Received(shown, one, p) = Got(shown, one, p)
  BY <1>2, <1>7 DEF Got
<1>9. Received(shown, both, p) = Got(Got(shown, one, p), two, p)
  <2>1. CASE one = <<>> /\ two = <<>>
    BY <1>2, <1>4, <1>7, <2>1 DEF Got
  <2>2. CASE one = <<>> /\ two # <<>>
    BY <1>2, <1>4, <1>7, <2>2 DEF Got
  <2>3. CASE one # <<>> /\ two = <<>>
    BY <1>2, <1>4, <1>7, <2>3 DEF Got
  <2>4. CASE one # <<>> /\ two # <<>>
    <3>1. Len(both) = 2 /\ both[1] = one[1] /\ both[2] = two[1]
      BY <1>2, <1>4, <2>4
    <3> QED
      BY <1>7, <2>4, <3>1 DEF Got
  <2> QED
    BY <2>1, <2>2, <2>3, <2>4
<1>10. Received(shown, all, p) = Got(Got(Got(shown, one, p), two, p), three, p)
  <2>1. CASE three = <<>>
    <3>1. all = both
      BY <1>2, <1>4, <1>5, <2>1, ConcatEmptySeq
    <3> QED
      BY <1>9, <2>1, <3>1 DEF Got
  <2>2. CASE three # <<>> /\ Len(both) = 0
    BY <1>2, <1>4, <1>6, <1>7, <2>2 DEF Got
  <2>3. CASE three # <<>> /\ Len(both) = 1
    <3>1. Len(all) = 2 /\ all[1] = both[1] /\ all[2] = three[1]
      BY <1>2, <1>6, <2>3
    <3>2. Deliver(shown, both[1], p) = Got(Got(shown, one, p), two, p)
      BY <1>4, <1>7, <1>9, <2>3
    <3> QED
      BY <1>7, <2>3, <3>1, <3>2 DEF Got
  <2>4. CASE three # <<>> /\ Len(both) = 2
    <3>1. Len(all) = 3 /\ all[1] = both[1] /\ all[2] = both[2] /\ all[3] = three[1]
      BY <1>2, <1>6, <2>4
    <3>2. Deliver(Deliver(shown, both[1], p), both[2], p) = Got(Got(shown, one, p), two, p)
      BY <1>4, <1>7, <1>9, <2>4
    <3> QED
      BY <1>7, <2>4, <3>1, <3>2 DEF Got
  <2> QED
    BY <1>2, <1>4, <2>1, <2>2, <2>3, <2>4
<1> QED
  BY <1>3, <1>5, <1>8, <1>9, <1>10

LEMMA ReceivedOne ==
    ASSUME NEW shown, NEW p, NEW one, MayBeOne(one)
    PROVE  Received(shown, one, p) = Got(shown, one, p)
BY ReceivedInTurn

LEMMA ReceivedTwo ==
    ASSUME NEW shown, NEW p, NEW one, NEW two, MayBeOne(one), MayBeOne(two), NEW notices, notices = one \o two
    PROVE  Received(shown, notices, p) = Got(Got(shown, one, p), two, p)
<1>1. /\ Received(shown, one \o two, p) = Got(Got(shown, one, p), two, p)
      /\ Received(shown, one \o two \o two, p) = Got(Got(Got(shown, one, p), two, p), two, p)
  BY ReceivedInTurn
<1> QED
  BY <1>1

\* Nobody gets no message.
LEMMA NoticeIsOne ==
    ASSUME NEW event, NEW slot, NEW to, NEW method
    PROVE  MayBeOne(Notice(event, slot, to, method))
BY DEF MayBeOne, Notice

\* What somebody receives, and what somebody else does not.
LEMMA GotNotice ==
    ASSUME NEW shown, NEW event, NEW slot, NEW to, NEW method, NEW p \in to
    PROVE  Got(shown, Notice(event, slot, to, method), p) =
               Deliver(shown, [event |-> event, slot |-> slot, to |-> to, method |-> method], p)
<1>1. PICK notice : notice = [event |-> event, slot |-> slot, to |-> to, method |-> method]
  OBVIOUS
<1>2. Notice(event, slot, to, method) = <<notice>>
  BY <1>1 DEF Notice
<1> QED
  BY <1>1, <1>2 DEF Got

LEMMA NotTold ==
    ASSUME NEW shown, NEW event, NEW slot, NEW to, NEW method, NEW p, p \notin to,
           NEW notices, notices = Notice(event, slot, to, method)
    PROVE  Got(shown, notices, p) = shown
<1>1. PICK notice : notice = [event |-> event, slot |-> slot, to |-> to, method |-> method]
  OBVIOUS
<1>2. CASE to = {}
  BY <1>2 DEF Got, Notice
<1>3. CASE to # {}
  <2>1. notices = <<notice>>
    BY <1>1, <1>3 DEF Notice
  <2>2. Got(shown, notices, p) = Deliver(shown, notice, p)
    BY <2>1 DEF Got
  <2>3. Deliver(shown, notice, p) = shown
    BY <1>1 DEF Deliver
  <2> QED
    BY <2>2, <2>3
<1> QED
  BY <1>2, <1>3

(* What calendars show *)

EntryOf(event, slot, p) ==
    [uid |-> event.uid, slot |-> slot, content |-> ContentAt(event, slot), role |-> AttendeesAt(event, slot)[p]]

ShownIn(event, slot, p) ==
    slot \in event.first .. event.last /\ Occurs(event, slot) /\ AttendeesAt(event, slot)[p] # Out

\* What is shown of an event, slot by slot.
LEMMA EntriesMembers ==
    ASSUME NEW event, NEW p
    PROVE  \A x : x \in Entries(event, p) <=> \E slot : ShownIn(event, slot, p) /\ x = EntryOf(event, slot, p)
BY DEF Entries, ShownIn, EntryOf

LEMMA EntryFields ==
    ASSUME NEW event, NEW slot, NEW p
    PROVE  EntryOf(event, slot, p).uid = event.uid /\ EntryOf(event, slot, p).slot = slot
BY DEF EntryOf

\* Who sees an event is invited to it, as a whole or by an exception.
LEMMA ThoseShownAreInvited ==
    ASSUME NEW event, NEW p \in People, NEW slot, ShownIn(event, slot, p)
    PROVE  /\ p \in Everyone(event)
           /\ \/ p \in Invited(event.attendees)
              \/ slot \in DOMAIN event.exceptions /\ p \in Invited(AttendeesAt(event, slot))
<1>1. AttendeesAt(event, slot)[p] # Out
  BY DEF ShownIn
<1>2. p \in Invited(AttendeesAt(event, slot))
  BY <1>1 DEF Invited
<1>3. CASE slot \notin DOMAIN event.exceptions
  <2>1. AttendeesAt(event, slot) = event.attendees
    BY <1>3 DEF AttendeesAt, ChangeOf, NoChange, Apply
  <2> QED
    BY <1>2, <2>1 DEF Everyone
<1>4. CASE slot \in DOMAIN event.exceptions
  <2>1. ~event.exceptions[slot].deleted /\ ChangeOf(event, slot) = event.exceptions[slot]
    BY <1>4 DEF ShownIn, Occurs, ChangeOf
  <2>2. CASE event.exceptions[slot].attendees = {}
    <3>1. AttendeesAt(event, slot) = event.attendees
      BY <2>1, <2>2 DEF AttendeesAt, Apply
    <3> QED
      BY <1>2, <3>1 DEF Everyone
  <2>3. CASE event.exceptions[slot].attendees # {}
    <3>1. AttendeesAt(event, slot) \in event.exceptions[slot].attendees
      BY <2>1, <2>3 DEF AttendeesAt, Apply
    <3>2. p \in UNION {Invited(a) : a \in event.exceptions[slot].attendees}
      BY <1>2, <3>1
    <3>3. p \in Everyone(event)
      BY <1>4, <2>1, <3>2 DEF Everyone
    <3> QED
      BY <1>2, <1>4, <3>3
  <2> QED
    BY <2>2, <2>3
<1> QED
  BY <1>3, <1>4

\* Nobody sees an event that he is not invited to.
LEMMA NothingForOthers ==
    ASSUME NEW event, NEW p \in People, p \notin Everyone(event)
    PROVE  Entries(event, p) = {}
BY EntriesMembers, ThoseShownAreInvited

\* Two events of which the same is shown.
LEMMA SameEntries ==
    ASSUME NEW event, NEW other, NEW p, event.uid = other.uid,
           \A slot : /\ ShownIn(event, slot, p) <=> ShownIn(other, slot, p)
                     /\ ShownIn(event, slot, p) =>
                            /\ ContentAt(event, slot) = ContentAt(other, slot)
                            /\ AttendeesAt(event, slot)[p] = AttendeesAt(other, slot)[p]
    PROVE  Entries(event, p) = Entries(other, p)
<1>1. \A slot : ShownIn(event, slot, p) => EntryOf(event, slot, p) = EntryOf(other, slot, p)
  BY DEF EntryOf
<1>2. \A x : x \in Entries(event, p) <=> x \in Entries(other, p)
  BY <1>1, EntriesMembers
<1> QED
  BY <1>2

(* What messages do *)

\* An invitation shows the whole event anew ...
LEMMA InvitedAnew ==
    ASSUME NEW shown, NEW event, NEW to, NEW p \in to
    PROVE  Deliver(shown, [event |-> event, slot |-> All, to |-> to, method |-> "request"], p) =
               {x \in shown : x.uid # event.uid} \union Entries(event, p)
<1>1. \A x \in Entries(event, p) : x.uid = event.uid
  BY EntriesMembers, EntryFields
<1>2. PICK notice : notice = [event |-> event, slot |-> All, to |-> to, method |-> "request"]
  OBVIOUS
<1>3. notice.event = event /\ notice.slot = All /\ notice.to = to /\ notice.method = "request"
  BY <1>2
<1>4. Deliver(shown, notice, p) =
          {x \in shown : x.uid # event.uid} \union {x \in Entries(event, p) : x.uid = event.uid}
  BY <1>3 DEF Deliver
<1> QED
  BY <1>1, <1>2, <1>4

\* ... or one slot of it.
LEMMA InvitedToSlot ==
    ASSUME NEW shown, NEW notice, notice.method = "request", NEW slot, notice.slot = slot, slot # All,
           NEW event, notice.event = event, NEW p, p \in notice.to
    PROVE  \A x : x \in Deliver(shown, notice, p) <=>
                     \/ x \in shown /\ ~(x.uid = event.uid /\ x.slot = slot)
                     \/ x \in Entries(event, p) /\ x.slot = slot
<1>1. \A x \in Entries(event, p) : x.uid = event.uid
  BY EntriesMembers, EntryFields
<1>2. PICK told : told = Deliver(shown, notice, p)
  OBVIOUS
<1>3. told = {x \in shown : ~(x.uid = event.uid /\ slot \in {All, x.slot})}
             \union {x \in Entries(event, p) : x.uid = event.uid /\ slot \in {All, x.slot}}
  BY <1>2 DEF Deliver
<1>4. ASSUME NEW x
      PROVE  x \in told <=> \/ x \in shown /\ ~(x.uid = event.uid /\ x.slot = slot)
                            \/ x \in Entries(event, p) /\ x.slot = slot
  <2>1. slot \in {All, x.slot} <=> x.slot = slot
    OBVIOUS
  <2>2. x \in told <=> \/ x \in shown /\ ~(x.uid = event.uid /\ slot \in {All, x.slot})
                       \/ x \in Entries(event, p) /\ x.uid = event.uid /\ slot \in {All, x.slot}
    BY <1>3
  <2> QED
    BY <1>1, <2>1, <2>2
<1> QED
  BY <1>2, <1>4

\* A cancellation takes away all that was shown of the event.
LEMMA CancelledWhole ==
    ASSUME NEW shown, NEW event, NEW to, NEW p \in People, p \in to,
           \A x \in shown : x.uid = event.uid => x \in Entries(event, p)
    PROVE  Deliver(shown, [event |-> event, slot |-> All, to |-> to, method |-> "cancel"], p) =
               {x \in shown : x.uid # event.uid}
<1>1. ASSUME NEW x \in shown, x.uid = event.uid
      PROVE  \/ p \in Invited(event.attendees)
             \/ x.slot \in DOMAIN event.exceptions /\ p \in Invited(AttendeesAt(event, x.slot))
  <2>1. PICK slot : ShownIn(event, slot, p) /\ x = EntryOf(event, slot, p)
    BY <1>1, EntriesMembers
  <2>2. x.slot = slot
    BY <2>1, EntryFields
  <2> QED
    BY <2>1, <2>2, ThoseShownAreInvited
<1>2. PICK notice : notice = [event |-> event, slot |-> All, to |-> to, method |-> "cancel"]
  OBVIOUS
<1>3. notice.event = event /\ notice.slot = All /\ notice.to = to /\ notice.method = "cancel"
  BY <1>2
<1>4. Deliver(shown, notice, p) =
          {x \in shown : ~(/\ x.uid = event.uid
                           /\ \/ p \in Invited(event.attendees)
                              \/ x.slot \in DOMAIN event.exceptions /\ p \in Invited(AttendeesAt(event, x.slot)))}
  BY <1>3 DEF Deliver
<1> QED
  BY <1>1, <1>2, <1>4

\* ... or one slot of it.
LEMMA CancelledSlot ==
    ASSUME NEW event, NEW slot, slot # All, NEW to, NEW p \in People, p \in to
    PROVE  Deliver(Entries(event, p), [event |-> event, slot |-> slot, to |-> to, method |-> "cancel"], p) =
               {x \in Entries(event, p) : x.slot # slot}
<1>1. ASSUME NEW x \in Entries(event, p)
      PROVE  /\ x.uid = event.uid
             /\ \/ p \in Invited(event.attendees)
                \/ x.slot \in DOMAIN event.exceptions /\ p \in Invited(AttendeesAt(event, x.slot))
  <2>1. PICK at : ShownIn(event, at, p) /\ x = EntryOf(event, at, p)
    BY <1>1, EntriesMembers
  <2>2. x.slot = at /\ x.uid = event.uid
    BY <2>1, EntryFields
  <2> QED
    BY <2>1, <2>2, ThoseShownAreInvited
<1>2. PICK notice : notice = [event |-> event, slot |-> slot, to |-> to, method |-> "cancel"]
  OBVIOUS
<1>3. notice.event = event /\ notice.slot = slot /\ notice.to = to /\ notice.method = "cancel"
  BY <1>2
<1>4. PICK shown : shown = Entries(event, p)
  OBVIOUS
<1>5. Deliver(shown, notice, p) =
          {x \in shown : ~(/\ x.uid = event.uid /\ slot \in {All, x.slot}
                           /\ \/ p \in Invited(event.attendees)
                              \/ x.slot \in DOMAIN event.exceptions /\ p \in Invited(AttendeesAt(event, x.slot)))}
  BY <1>3 DEF Deliver
<1> QED
  BY <1>1, <1>2, <1>4, <1>5

(* What the messages of a plan do *)

\* Only the attendees of the event as a whole are others.
OnlyRoster(event, new) == [event EXCEPT !.attendees = new.attendees, !.meeting = new.meeting] = new

Fields == {"uid", "first", "last", "recurring", "content", "mine", "attendees", "meeting", "requested",
           "exceptions"}

\* The slots, content and exceptions of such an event are the same.
LEMMA RosterFields ==
    ASSUME NEW event, Fields \subseteq DOMAIN event, NEW new, OnlyRoster(event, new)
    PROVE  /\ new.uid = event.uid /\ new.first = event.first /\ new.last = event.last
           /\ new.content = event.content /\ new.exceptions = event.exceptions
BY DEF OnlyRoster, Fields

\* Nothing else changes for those whose role in the whole is the same.
LEMMA SameRoleSameEntries ==
    ASSUME NEW event, Fields \subseteq DOMAIN event, NEW new, OnlyRoster(event, new), NEW p, event.attendees[p] = new.attendees[p]
    PROVE  Entries(event, p) = Entries(new, p)
<1>1. /\ new.uid = event.uid /\ new.first = event.first /\ new.last = event.last
      /\ new.content = event.content /\ new.exceptions = event.exceptions
  BY RosterFields
<1>2. ASSUME NEW slot
      PROVE  /\ ShownIn(event, slot, p) <=> ShownIn(new, slot, p)
             /\ ContentAt(event, slot) = ContentAt(new, slot)
             /\ AttendeesAt(event, slot)[p] = AttendeesAt(new, slot)[p]
  <2>1. ChangeOf(event, slot) = ChangeOf(new, slot)
    BY <1>1 DEF ChangeOf
  <2>2. Occurs(event, slot) <=> Occurs(new, slot)
    BY <1>1, <2>1 DEF Occurs
  <2>3. ContentAt(event, slot) = ContentAt(new, slot)
    BY <1>1, <2>1 DEF ContentAt
  <2>4. AttendeesAt(event, slot)[p] = AttendeesAt(new, slot)[p]
    BY <2>1 DEF AttendeesAt, Apply
  <2> QED
    BY <1>1, <2>2, <2>3, <2>4 DEF ShownIn
<1> QED
  BY <1>1, <1>2, SameEntries

LEMMA InvitedAreEveryone ==
    ASSUME NEW event
    PROVE  Invited(event.attendees) \subseteq Everyone(event)
BY DEF Everyone

\* A change of the whole is told, but to those who only keep an occurrence.
LEMMA WholeIsTold ==
    ASSUME NEW event, Fields \subseteq DOMAIN event, NEW new, new.uid = event.uid, NEW p \in People
    PROVE  \/ Received(Entries(event, p), Notice(new, All, Recipients(event, new), "request")
                                          \o Notice(event, All, GoneFrom(event, new), "cancel"), p)
                  = Entries(new, p)
           \/ /\ OnlyRoster(event, new) /\ p \in Everyone(new)
              /\ p \in Invited(event.attendees) \ Invited(new.attendees)
<1>a. PICK recipients : recipients = Recipients(event, new)
  OBVIOUS
<1>b. PICK gone : gone = GoneFrom(event, new)
  OBVIOUS
<1>c. PICK one : one = Notice(new, All, recipients, "request")
  OBVIOUS
<1>d. PICK two : two = Notice(event, All, gone, "cancel")
  OBVIOUS
<1>i. PICK notices : notices = one \o two
  OBVIOUS
<1>j. SUFFICES \/ Received(Entries(event, p), notices, p) = Entries(new, p)
               \/ /\ OnlyRoster(event, new) /\ p \in Everyone(new)
                  /\ p \in Invited(event.attendees) \ Invited(new.attendees)
  BY <1>a, <1>b, <1>c, <1>d, <1>i
<1>h. \A q : q \in gone <=> q \in Everyone(event) /\ q \notin Everyone(new)
  BY <1>b DEF GoneFrom
<1>e. MayBeOne(one) /\ MayBeOne(two) /\ notices = one \o two
  BY <1>c, <1>d, <1>i, NoticeIsOne
<1>f. /\ \A shown : p \notin recipients => Got(shown, one, p) = shown
      /\ \A shown : p \notin gone => Got(shown, two, p) = shown
  <2>1. \A shown : p \notin recipients => Got(shown, one, p) = shown
    BY <1>c, NotTold
  <2>2. \A shown : p \notin gone => Got(shown, two, p) = shown
    BY <1>d, NotTold
  <2> QED
    BY <2>1, <2>2
<1>g. \A shown :
          /\ p \in recipients => Got(shown, one, p) =
                 Deliver(shown, [event |-> new, slot |-> All, to |-> recipients, method |-> "request"], p)
          /\ p \in gone => Got(shown, two, p) =
                 Deliver(shown, [event |-> event, slot |-> All, to |-> gone, method |-> "cancel"], p)
  BY <1>c, <1>d, GotNotice
<1>1. PICK shown : shown = Entries(event, p)
  OBVIOUS
<1>2. PICK first : first = Got(shown, one, p)
  OBVIOUS
<1>3. Received(shown, notices, p) = Got(first, two, p)
  BY <1>2, <1>e, ReceivedTwo
<1>4. /\ p \notin recipients => first = shown
      /\ p \in recipients => first = Entries(new, p)
  <2>1. p \notin recipients => first = shown
    BY <1>2, <1>f
  <2>2. ASSUME p \in recipients
        PROVE  first = Entries(new, p)
    <3>1. first = Deliver(shown, [event |-> new, slot |-> All, to |-> recipients, method |-> "request"], p)
      BY <1>2, <1>g, <2>2
    <3>2. first = {x \in shown : x.uid # new.uid} \union Entries(new, p)
      BY <2>2, <3>1, InvitedAnew
    <3>3. \A x \in shown : x.uid = new.uid
      BY <1>1, EntriesMembers, EntryFields
    <3> QED
      BY <3>2, <3>3
  <2> QED
    BY <2>1, <2>2
<1>5. recipients \subseteq Everyone(new)
  BY <1>a, InvitedAreEveryone DEF Recipients
<1>6. CASE p \in recipients
  <2>1. p \notin gone
    BY <1>5, <1>6, <1>h
  <2>2. Got(first, two, p) = first
    BY <1>f, <2>1
  <2> QED
    BY <1>1, <1>3, <1>4, <1>6, <2>2
<1>7. CASE p \in gone
  <2>1. p \notin recipients /\ p \notin Everyone(new)
    BY <1>5, <1>7, <1>h
  <2>2. first = Entries(event, p)
    BY <1>1, <1>4, <2>1
  <2>3. Got(first, two, p) =
            Deliver(Entries(event, p), [event |-> event, slot |-> All, to |-> gone, method |-> "cancel"], p)
    BY <1>g, <1>7, <2>2
  <2>4. \A x \in Entries(event, p) : x.uid = event.uid => x \in Entries(event, p)
    OBVIOUS
  <2>5. Got(first, two, p) = {x \in Entries(event, p) : x.uid # event.uid}
    BY <1>7, <2>3, <2>4, CancelledWhole
  <2>6. \A x \in Entries(event, p) : x.uid = event.uid
    BY EntriesMembers, EntryFields
  <2>7. Entries(new, p) = {}
    BY <2>1, NothingForOthers
  <2> QED
    BY <1>1, <1>3, <2>5, <2>6, <2>7
<1>8. CASE p \notin recipients /\ p \notin gone
  <2>1. Got(first, two, p) = Entries(event, p)
    BY <1>1, <1>4, <1>8, <1>f
  <2>2. CASE OnlyRoster(event, new)
    <3>1. recipients = {q \in Invited(new.attendees) : event.attendees[q] # new.attendees[q]}
      BY <1>a, <2>2 DEF Recipients, OnlyRoster
    <3>2. CASE p \in Invited(new.attendees) \/ p \notin Invited(event.attendees)
      <4>1. event.attendees[p] = new.attendees[p]
        BY <1>8, <3>1, <3>2 DEF Invited
      <4> QED
        BY <1>1, <1>3, <2>1, <2>2, <4>1, SameRoleSameEntries
    <3>3. CASE p \in Invited(event.attendees) \ Invited(new.attendees)
      <4>1. p \in Everyone(event)
        BY <3>3, InvitedAreEveryone
      <4>2. p \in Everyone(new)
        BY <1>8, <1>h, <4>1
      <4> QED
        BY <2>2, <3>3, <4>2
    <3> QED
      BY <3>2, <3>3
  <2>3. CASE ~OnlyRoster(event, new)
    <3>1. recipients = Everyone(new)
      BY <1>a, <2>3 DEF Recipients, OnlyRoster
    <3>2. p \notin Everyone(new) /\ p \notin Everyone(event)
      BY <1>8, <1>h, <3>1
    <3>3. Entries(new, p) = {} /\ Entries(event, p) = {}
      BY <3>2, NothingForOthers
    <3> QED
      BY <1>1, <1>3, <2>1, <3>3
  <2> QED
    BY <2>2, <2>3
<1> QED
  BY <1>6, <1>7, <1>8

\* A cancellation leaves nothing of the event.
LEMMA CancellationIsTold ==
    ASSUME NEW event, NEW p \in People
    PROVE  Received(Entries(event, p), Notice(event, All, Everyone(event), "cancel"), p) = {}
<1>1. PICK shown : shown = Entries(event, p)
  OBVIOUS
<1>2. Received(shown, Notice(event, All, Everyone(event), "cancel"), p)
          = Got(shown, Notice(event, All, Everyone(event), "cancel"), p)
  BY NoticeIsOne, ReceivedOne
<1>3. CASE p \in Everyone(event)
  <2>1. Got(shown, Notice(event, All, Everyone(event), "cancel"), p) =
            Deliver(shown, [event |-> event, slot |-> All, to |-> Everyone(event), method |-> "cancel"], p)
    BY <1>3, GotNotice
  <2>2. \A x \in shown : x.uid = event.uid => x \in Entries(event, p)
    BY <1>1
  <2>3. Got(shown, Notice(event, All, Everyone(event), "cancel"), p) = {x \in shown : x.uid # event.uid}
    BY <1>3, <2>1, <2>2, CancelledWhole
  <2>4. \A x \in Entries(event, p) : x.uid = event.uid
    BY EntriesMembers, EntryFields
  <2> QED
    BY <1>1, <1>2, <2>3, <2>4
<1>4. CASE p \notin Everyone(event)
  <2>1. shown = {}
    BY <1>1, <1>4, NothingForOthers
  <2> QED
    BY <1>1, <1>2, <1>4, <2>1, NotTold
<1> QED
  BY <1>3, <1>4

\* An occurrence of which everything else of the event is the same.
LEMMA OccurrenceIsTold ==
    ASSUME NEW event, NEW changed, NEW slot, slot # All, NEW p \in People, changed.uid = event.uid,
           slot \in event.first .. event.last, Occurs(event, slot),
           changed.first = event.first, changed.last = event.last,
           \A s : s # slot => /\ ShownIn(event, s, p) <=> ShownIn(changed, s, p)
                              /\ EntryOf(event, s, p) = EntryOf(changed, s, p),
           NEW before, before = Invited(AttendeesAt(event, slot)),
           NEW after, Occurs(changed, slot) => after = Invited(AttendeesAt(changed, slot)),
           ~Occurs(changed, slot) => after = {},
           NEW gone, \A q : q \in gone <=> q \in before /\ q \notin after
    PROVE  Received(Entries(event, p),
                    Notice(changed, slot, after, "request") \o Notice(event, slot, gone, "cancel"), p)
               = Entries(changed, p)
<1>a. PICK notices : notices = Notice(changed, slot, after, "request") \o Notice(event, slot, gone, "cancel")
  OBVIOUS
<1>b. gone = before \ after
  OBVIOUS
<1>c. PICK one : one = Notice(changed, slot, after, "request")
  OBVIOUS
<1>d. PICK two : two = Notice(event, slot, gone, "cancel")
  OBVIOUS
<1>e. MayBeOne(one) /\ MayBeOne(two) /\ notices = one \o two
  BY <1>a, <1>c, <1>d, NoticeIsOne
<1>h. SUFFICES Received(Entries(event, p), notices, p) = Entries(changed, p)
  BY <1>a
<1>f. /\ \A shown : p \notin after => Got(shown, one, p) = shown
      /\ \A shown : p \notin gone => Got(shown, two, p) = shown
  <2>1. \A shown : p \notin after => Got(shown, one, p) = shown
    BY <1>c, NotTold
  <2>2. \A shown : p \notin gone => Got(shown, two, p) = shown
    BY <1>d, NotTold
  <2> QED
    BY <2>1, <2>2
<1>g. \A shown :
          /\ p \in after => Got(shown, one, p) =
                 Deliver(shown, [event |-> changed, slot |-> slot, to |-> after, method |-> "request"], p)
          /\ p \in gone => Got(shown, two, p) =
                 Deliver(shown, [event |-> event, slot |-> slot, to |-> gone, method |-> "cancel"], p)
  BY <1>c, <1>d, GotNotice
<1>1. PICK shown : shown = Entries(event, p)
  OBVIOUS
<1>2. PICK first : first = Got(shown, one, p)
  OBVIOUS
<1>3. Received(shown, notices, p) = Got(first, two, p)
  BY <1>2, <1>e, ReceivedTwo
<1>4. \A x : x.slot # slot => (x \in Entries(event, p) <=> x \in Entries(changed, p))
  BY EntriesMembers, EntryFields
<1>5. /\ \A x \in Entries(event, p) : x.uid = event.uid
      /\ \A x \in Entries(changed, p) : x.uid = event.uid
  BY EntriesMembers, EntryFields
<1>6. p \notin before => \A x \in Entries(event, p) : x.slot # slot
  BY EntriesMembers, EntryFields DEF ShownIn, Invited
<1>7. p \notin after => \A x \in Entries(changed, p) : x.slot # slot
  <2>1. p \notin after => ~ShownIn(changed, slot, p)
    BY DEF ShownIn, Invited
  <2> QED
    BY <2>1, EntriesMembers, EntryFields
<1>8. CASE p \in after
  <2>1. PICK notice : notice = [event |-> changed, slot |-> slot, to |-> after, method |-> "request"]
    OBVIOUS
  <2>b. first = Deliver(shown, notice, p)
    BY <1>2, <1>8, <1>g, <2>1
  <2>c. notice.method = "request" /\ notice.slot = slot /\ notice.event = changed /\ p \in notice.to
    BY <1>8, <2>1
  <2>2. \A x : x \in first <=> \/ x \in shown /\ ~(x.uid = changed.uid /\ x.slot = slot)
                               \/ x \in Entries(changed, p) /\ x.slot = slot
    BY ONLY slot # All, <2>b, <2>c, InvitedToSlot
  <2>a. ASSUME NEW x PROVE x \in first <=> x \in Entries(changed, p)
    BY ONLY changed.uid = event.uid, <1>1, <1>4, <1>5, <2>2
  <2>3. first = Entries(changed, p)
    BY <2>a
  <2>4. Got(first, two, p) = first
    BY <1>8, <1>b, <1>f
  <2> QED
    BY <1>1, <1>3, <2>3, <2>4
<1>9. CASE p \in before \ after
  <2>1. first = shown
    BY <1>2, <1>9, <1>f
  <2>2. Got(first, two, p) =
            Deliver(Entries(event, p), [event |-> event, slot |-> slot, to |-> gone, method |-> "cancel"], p)
    BY <1>1, <1>9, <1>b, <1>g, <2>1
  <2>3. Got(first, two, p) = {x \in Entries(event, p) : x.slot # slot}
    <3>1. p \in gone
      BY <1>9, <1>b
    <3> QED
      BY <2>2, <3>1, CancelledSlot
  <2> QED
    BY <1>1, <1>3, <1>4, <1>7, <1>9, <2>3
<1>10. CASE p \notin after /\ p \notin before
  <2>1. Got(first, two, p) = shown
    BY <1>2, <1>10, <1>b, <1>f
  <2> QED
    BY <1>1, <1>3, <1>4, <1>6, <1>7, <1>10, <2>1
<1> QED
  BY <1>8, <1>9, <1>10

\* The series that continues the event has a UID of its own.
LEMMA SplitIsTold ==
    ASSUME NEW event, NEW shortened, shortened.uid = event.uid, NEW p \in People,
           NEW later, \A x \in later : x.uid # event.uid,
           NEW one, MayBeOne(one), Got(Entries(event, p), one, p) = Entries(event, p) \union later
    PROVE  Received(Entries(event, p), one \o Notice(shortened, All, Everyone(shortened), "request")
                                           \o Notice(event, All, GoneFrom(event, shortened), "cancel"), p)
               = Entries(shortened, p) \union later
<1>a. PICK stay : stay = Everyone(shortened)
  OBVIOUS
<1>b. PICK gone : gone = GoneFrom(event, shortened)
  OBVIOUS
<1>c. PICK two : two = Notice(shortened, All, stay, "request")
  OBVIOUS
<1>d. PICK three : three = Notice(event, All, gone, "cancel")
  OBVIOUS
<1>i. PICK notices : notices = one \o two \o three
  OBVIOUS
<1>j. SUFFICES Received(Entries(event, p), notices, p) = Entries(shortened, p) \union later
  BY <1>a, <1>b, <1>c, <1>d, <1>i
<1>h. \A q : q \in gone <=> q \in Everyone(event) /\ q \notin stay
  BY <1>a, <1>b DEF GoneFrom
<1>e. MayBeOne(two) /\ MayBeOne(three) /\ notices = one \o two \o three
  BY <1>c, <1>d, <1>i, NoticeIsOne
<1>f. /\ \A shown : p \notin stay => Got(shown, two, p) = shown
      /\ \A shown : p \notin gone => Got(shown, three, p) = shown
  <2>1. \A shown : p \notin stay => Got(shown, two, p) = shown
    BY <1>c, NotTold
  <2>2. \A shown : p \notin gone => Got(shown, three, p) = shown
    BY <1>d, NotTold
  <2> QED
    BY <2>1, <2>2
<1>g. \A shown :
          /\ p \in stay => Got(shown, two, p) =
                 Deliver(shown, [event |-> shortened, slot |-> All, to |-> stay, method |-> "request"], p)
          /\ p \in gone => Got(shown, three, p) =
                 Deliver(shown, [event |-> event, slot |-> All, to |-> gone, method |-> "cancel"], p)
  BY <1>c, <1>d, GotNotice
<1>1. PICK first : first = Got(Entries(event, p), one, p)
  OBVIOUS
<1>2. PICK second : second = Got(first, two, p)
  OBVIOUS
<1>3. Received(Entries(event, p), notices, p) = Got(second, three, p)
  <2>1. PICK shown : shown = Entries(event, p)
    OBVIOUS
  <2>2. Received(shown, notices, p) = Got(Got(Got(shown, one, p), two, p), three, p)
    <3>1. Received(shown, one \o two \o three, p) = Got(Got(Got(shown, one, p), two, p), three, p)
      BY ONLY <1>e, ReceivedInTurn, MayBeOne(one)
    <3> QED
      BY ONLY <1>e, <3>1
  <2> QED
    BY ONLY <1>1, <1>2, <2>1, <2>2
<1>4. /\ \A x \in Entries(event, p) : x.uid = event.uid
      /\ \A x \in Entries(shortened, p) : x.uid = event.uid
  BY EntriesMembers, EntryFields
<1>5. \A x \in later : x.uid # event.uid
  OBVIOUS
<1>6. CASE p \in stay
  <2>1. second = Deliver(first, [event |-> shortened, slot |-> All, to |-> stay, method |-> "request"], p)
    BY <1>2, <1>6, <1>g
  <2>2. second = {x \in first : x.uid # shortened.uid} \union Entries(shortened, p)
    BY <1>6, <2>1, InvitedAnew
  <2>3. second = Entries(shortened, p) \union later
    BY <1>1, <1>4, <1>5, <2>2
  <2> QED
    BY <1>3, <1>6, <1>f, <1>h, <2>3
<1>7. CASE p \in gone
  <2>1. second = first
    BY <1>2, <1>7, <1>f, <1>h
  <2>2. Got(second, three, p) = Deliver(first, [event |-> event, slot |-> All, to |-> gone, method |-> "cancel"], p)
    BY <1>7, <1>g, <2>1
  <2>3. \A x \in first : x.uid = event.uid => x \in Entries(event, p)
    BY <1>1, <1>5
  <2>4. Got(second, three, p) = {x \in first : x.uid # event.uid}
    BY <1>7, <2>2, <2>3, CancelledWhole
  <2>5. Entries(shortened, p) = {}
    BY <1>7, <1>a, <1>h, NothingForOthers
  <2> QED
    BY <1>1, <1>3, <1>4, <1>5, <2>4, <2>5
<1>8. CASE p \notin stay /\ p \notin gone
  <2>1. Entries(shortened, p) = {} /\ Entries(event, p) = {}
    BY <1>8, <1>a, <1>h, NothingForOthers
  <2>2. Got(second, three, p) = first
    BY <1>2, <1>8, <1>f
  <2> QED
    BY <1>1, <1>3, <2>1, <2>2
<1> QED
  BY <1>6, <1>7, <1>8

(* What a plan writes *)

Patched(exceptions) ==
    \A slot \in DOMAIN exceptions :
        exceptions[slot].attendees = {} \/ \E a : exceptions[slot].attendees = {a}

\* The parts of an event that the plans change, and their types.
LEMMA EventFacts ==
    ASSUME NEW event, IsEvent(event)
    PROVE  /\ Fields \subseteq DOMAIN event /\ event.uid \in Int
           /\ event.first \in Nat \ {0} /\ event.last \in Int
           /\ DOMAIN event.exceptions \subseteq event.first .. event.last
           /\ Patched(event.exceptions) /\ event.recurring \in BOOLEAN
<1>1. /\ Fields \subseteq DOMAIN event /\ event.uid \in Int
      /\ event.first \in Nat \ {0} /\ event.last \in Int
      /\ event.exceptions \in [DOMAIN event.exceptions -> Patches] /\ event.recurring \in BOOLEAN
  BY DEF IsEvent, Fields
<1>2. DOMAIN event.exceptions \subseteq event.first .. event.last
  BY DEF IsEvent, Preserves
<1>3. ASSUME NEW slot \in DOMAIN event.exceptions
      PROVE  event.exceptions[slot].attendees = {} \/ \E a : event.exceptions[slot].attendees = {a}
  <2>1. PICK change : change = event.exceptions[slot] /\ change \in Patches
    BY <1>1, <1>3
  <2>2. change.attendees \in {{}} \union {{a} : a \in [People -> Roles]}
    BY <2>1 DEF Patches
  <2> QED
    BY <2>1, <2>2
<1> QED
  BY <1>1, <1>2, <1>3 DEF Patched

\* What an event keeps when its status, an input or a split changes it.
LEMMA RefreshedFields ==
    ASSUME NEW event, Fields \subseteq DOMAIN event, NEW new, new = RefreshStatus(event)
    PROVE  /\ Fields \subseteq DOMAIN new /\ new.uid = event.uid /\ new.first = event.first
           /\ new.last = event.last /\ new.recurring = event.recurring /\ new.content = event.content
           /\ new.attendees = event.attendees /\ new.exceptions = event.exceptions
           /\ new.meeting = (Everyone(new) # {})
<1>1. PICK met : met = (Everyone(event) # {})
  OBVIOUS
<1>2. new = [event EXCEPT !.meeting = met]
  BY <1>1 DEF RefreshStatus
<1>3. /\ Fields \subseteq DOMAIN new /\ new.uid = event.uid /\ new.first = event.first
      /\ new.last = event.last /\ new.recurring = event.recurring /\ new.content = event.content
      /\ new.attendees = event.attendees /\ new.exceptions = event.exceptions /\ new.meeting = met
  BY <1>2 DEF Fields
<1>4. Everyone(new) = Everyone(event)
  BY <1>3 DEF Everyone
<1> QED
  BY <1>1, <1>3, <1>4

LEMMA UpdatedFields ==
    ASSUME NEW event, Fields \subseteq DOMAIN event, NEW input, NEW new, new = Update(event, input)
    PROVE  new.uid = event.uid /\ new.meeting = (Everyone(new) # {})
<1>1. PICK changed : changed = [event EXCEPT
          !.attendees = Apply(@, input.attendees), !.content = Apply(@, input.content),
          !.last = Apply(@, input.last), !.recurring = @ \/ input.last # {}]
  OBVIOUS
<1>2. Fields \subseteq DOMAIN changed /\ changed.uid = event.uid
  BY <1>1 DEF Fields
<1>3. new = RefreshStatus(changed)
  BY <1>1 DEF Update
<1> QED
  BY <1>2, <1>3, RefreshedFields

LEMMA PartFields ==
    ASSUME NEW event, Fields \subseteq DOMAIN event, NEW from, NEW to, NEW part, part = Part(event, from, to)
    PROVE  Fields \subseteq DOMAIN part /\ part.uid = event.uid /\ part.first = from /\ part.last = to
BY DEF Part, Fields

WrittenBy(steps) == {steps[n].event : n \in {k \in DOMAIN steps : steps[k].does # "delete"}}

\* The events that a plan leaves at Exchange.
LEMMA StepsWrite ==
    ASSUME NEW event, NEW other
    PROVE  /\ WrittenBy(<<Step("create", event)>>) = {event}
           /\ WrittenBy(<<Step("update", event)>>) = {event}
           /\ WrittenBy(<<Step("delete", event)>>) = {}
           /\ WrittenBy(<<Step("create", event)>> \o <<Step("update", other)>>) = {event, other}
           /\ WrittenBy(<<>> \o <<Step("update", other)>>) = {other}
<1>1. WrittenBy(<<Step("create", event)>>) = {event}
  BY DEF WrittenBy, Step
<1>2. WrittenBy(<<Step("update", event)>>) = {event}
  BY DEF WrittenBy, Step
<1>3. WrittenBy(<<Step("delete", event)>>) = {}
  BY DEF WrittenBy, Step
<1>4. PICK one : one = Step("create", event)
  OBVIOUS
<1>5. PICK two : two = Step("update", other)
  OBVIOUS
<1>6. /\ one.does = "create" /\ one.event = event /\ two.does = "update" /\ two.event = other
  BY <1>4, <1>5 DEF Step
<1>7. PICK steps : steps = <<one>> \o <<two>>
  OBVIOUS
<1>8. DOMAIN steps = {1, 2} /\ steps[1] = one /\ steps[2] = two
  BY <1>7
<1>9. WrittenBy(steps) = {event, other}
  BY <1>6, <1>8 DEF WrittenBy
<1>10. PICK last : last = <<>> \o <<two>>
  OBVIOUS
<1>11. DOMAIN last = {1} /\ last[1] = two
  BY <1>10
<1>12. WrittenBy(last) = {other}
  BY <1>6, <1>11 DEF WrittenBy
<1> QED
  BY <1>1, <1>2, <1>3, <1>4, <1>5, <1>7, <1>9, <1>10, <1>12

(* Plans *)

\* A plan tells everybody what has become of an event.
Tells(is, event, scope, steps, notices) ==
    LET written == WrittenBy(steps)
        before(p) == IF is = "create" THEN {} ELSE Entries(event, p)
        after(p) == UNION {Entries(e, p) : e \in written}
        rosterOnly(e) == is = "edit" /\ OnlyRoster(event, e)
    IN  /\ \A p \in People :
            \/ Received(before(p), notices, p) = after(p)
            \/ \E e \in written : /\ rosterOnly(e) /\ p \in Everyone(e)
                                  /\ p \in Invited(event.attendees) \ Invited(e.attendees)
        /\ \A e \in written : e.meeting = (Everyone(e) # {})
        /\ /\ \E e \in written : rosterOnly(e)
           /\ scope # "occurrence"
           /\ \E slot \in event.first .. event.last : slot \notin DOMAIN event.exceptions
           => \A n \in DOMAIN notices : \A p \in notices[n].to : before(p) # after(p)

LEMMA UnionOfOne == ASSUME NEW e, NEW p PROVE UNION {Entries(f, p) : f \in {e}} = Entries(e, p)
OBVIOUS

LEMMA UnionOfTwo ==
    ASSUME NEW e, NEW g, NEW p
    PROVE  UNION {Entries(f, p) : f \in {e, g}} = Entries(g, p) \union Entries(e, p)
OBVIOUS

\* A new event is told to those who are invited.
LEMMA CreateTells ==
    ASSUME NEW event, IsEvent(event), DOMAIN event.exceptions = {}, NEW plan, plan = Create(event), NEW scope
    PROVE  Tells("create", event, scope, plan.steps, plan.notices)
<1>1. PICK new : new = RefreshStatus(event)
  OBVIOUS
<1>2. Fields \subseteq DOMAIN event
  BY EventFacts
<1>3. /\ new.uid = event.uid /\ new.first = event.first /\ new.last = event.last /\ new.content = event.content
      /\ new.attendees = event.attendees /\ new.exceptions = event.exceptions
      /\ new.meeting = (Everyone(new) # {})
  BY <1>1, <1>2, RefreshedFields
<1>4. PICK invited : invited = Invited(event.attendees)
  OBVIOUS
<1>5. PICK notices : notices = Notice(event, All, invited, "request")
  OBVIOUS
<1>6. plan.notices = notices /\ plan.steps = <<Step("create", new)>>
  BY <1>1, <1>4, <1>5 DEF Create
<1>7. WrittenBy(plan.steps) = {new}
  BY <1>6, StepsWrite
<1>8. ASSUME NEW p \in People
      PROVE  Received({}, notices, p) = Entries(new, p)
  <2>1. Entries(new, p) = Entries(event, p)
    <3>1. ASSUME NEW slot
          PROVE  /\ ShownIn(event, slot, p) <=> ShownIn(new, slot, p)
                 /\ ContentAt(event, slot) = ContentAt(new, slot)
                 /\ AttendeesAt(event, slot)[p] = AttendeesAt(new, slot)[p]
      BY <1>3 DEF ShownIn, Occurs, ContentAt, AttendeesAt, ChangeOf
    <3> QED
      BY <1>3, <3>1, SameEntries
  <2>2. MayBeOne(notices)
    BY <1>5, NoticeIsOne
  <2>3. Received({}, notices, p) = Got({}, notices, p)
    BY <2>2, ReceivedOne
  <2>4. CASE p \in invited
    <3>1. Got({}, notices, p) =
              Deliver({}, [event |-> event, slot |-> All, to |-> invited, method |-> "request"], p)
      BY <1>5, <2>4, GotNotice
    <3>2. Got({}, notices, p) = {x \in {} : x.uid # event.uid} \union Entries(event, p)
      BY <2>4, <3>1, InvitedAnew
    <3> QED
      BY <2>1, <2>3, <3>2
  <2>5. CASE p \notin invited
    <3>1. Got({}, notices, p) = {}
      BY <1>5, <2>5, NotTold
    <3>2. p \notin Everyone(event)
      BY <1>4, <2>5 DEF Everyone
    <3> QED
      BY <2>1, <2>3, <3>1, <3>2, NothingForOthers
  <2> QED
    BY <2>4, <2>5
<1> QED
  BY <1>3, <1>6, <1>7, <1>8, UnionOfOne DEF Tells

\* The message that tells of a change of attendees goes to those it concerns.
LEMMA NobodyIsToldInVain ==
    ASSUME NEW event, IsEvent(event), NEW new, OnlyRoster(event, new),
           NEW slot \in event.first .. event.last, slot \notin DOMAIN event.exceptions,
           NEW p \in People, p \in Recipients(event, new) \/ p \in Everyone(event) \ Everyone(new)
    PROVE  Entries(event, p) # Entries(new, p)
<1>1. /\ Fields \subseteq DOMAIN event /\ DOMAIN event.exceptions \subseteq event.first .. event.last
      /\ Patched(event.exceptions)
  BY EventFacts
<1>2. /\ new.uid = event.uid /\ new.first = event.first /\ new.last = event.last
      /\ new.content = event.content /\ new.exceptions = event.exceptions
  BY <1>1, RosterFields
<1>3. ChangeOf(event, slot) = NoChange /\ ChangeOf(new, slot) = NoChange
  BY <1>2 DEF ChangeOf
<1>4. /\ AttendeesAt(event, slot) = event.attendees /\ AttendeesAt(new, slot) = new.attendees
      /\ Occurs(event, slot) /\ Occurs(new, slot)
  BY <1>2, <1>3 DEF AttendeesAt, Apply, NoChange, Occurs
<1>5. CASE p \in Recipients(event, new)
  <2>1. p \in Invited(new.attendees) /\ event.attendees[p] # new.attendees[p]
    BY <1>5 DEF Recipients, OnlyRoster
  <2>2. ShownIn(new, slot, p)
    BY <1>2, <1>4, <2>1 DEF ShownIn, Invited
  <2>3. EntryOf(new, slot, p) \in Entries(new, p)
    BY <2>2, EntriesMembers
  <2>4. EntryOf(new, slot, p).role = new.attendees[p] /\ EntryOf(new, slot, p).slot = slot
    BY <1>4 DEF EntryOf
  <2>5. ASSUME EntryOf(new, slot, p) \in Entries(event, p)
        PROVE  FALSE
    <3>1. PICK at : ShownIn(event, at, p) /\ EntryOf(new, slot, p) = EntryOf(event, at, p)
      BY <2>5, EntriesMembers
    <3>2. at = slot
      BY <2>4, <3>1, EntryFields
    <3>3. EntryOf(event, slot, p).role = event.attendees[p]
      BY <1>4 DEF EntryOf
    <3> QED
      BY <2>1, <2>4, <3>1, <3>2, <3>3
  <2> QED
    BY <2>3, <2>5
<1>6. CASE p \in Everyone(event) \ Everyone(new)
  <2>1. Entries(new, p) = {}
    BY <1>6, NothingForOthers
  <2>2. \E at : ShownIn(event, at, p)
    <3>1. CASE p \in Invited(event.attendees)
      BY <1>4, <3>1 DEF ShownIn, Invited
    <3>2. CASE p \notin Invited(event.attendees)
      <4>1. PICK at \in DOMAIN event.exceptions :
                /\ ~event.exceptions[at].deleted
                /\ p \in UNION {Invited(a) : a \in event.exceptions[at].attendees}
        BY <1>6, <3>2 DEF Everyone
      <4>2. PICK a \in event.exceptions[at].attendees : p \in Invited(a)
        BY <4>1
      <4>3. event.exceptions[at].attendees = {a}
        BY <1>1, <4>2 DEF Patched
      <4>4. ChangeOf(event, at) = event.exceptions[at]
        BY <4>1 DEF ChangeOf
      <4>5. AttendeesAt(event, at) = a
        BY <4>3, <4>4 DEF AttendeesAt, Apply
      <4> QED
        BY <1>1, <4>1, <4>2, <4>4, <4>5 DEF ShownIn, Occurs, Invited
    <3> QED
      BY <3>1, <3>2
  <2> QED
    BY <2>1, <2>2, EntriesMembers
<1> QED
  BY <1>5, <1>6

LEMMA EveryoneIsPeople == ASSUME NEW event PROVE Everyone(event) \subseteq People
BY DEF Everyone, Invited

\* The recipients of the messages of a plan.
LEMMA NoticesTo ==
    ASSUME NEW event, NEW slot, NEW to, NEW method, NEW other, NEW at, NEW others, NEW how,
           NEW notices, notices = Notice(event, slot, to, method) \o Notice(other, at, others, how)
    PROVE  \A n \in DOMAIN notices : notices[n].to \in {to, others}
<1>1. PICK one : one = [event |-> event, slot |-> slot, to |-> to, method |-> method]
  OBVIOUS
<1>2. PICK two : two = [event |-> other, slot |-> at, to |-> others, method |-> how]
  OBVIOUS
<1>3. one.to = to /\ two.to = others
  BY <1>1, <1>2
<1>4. Notice(event, slot, to, method) = IF to = {} THEN <<>> ELSE <<one>>
  BY <1>1 DEF Notice
<1>5. Notice(other, at, others, how) = IF others = {} THEN <<>> ELSE <<two>>
  BY <1>2 DEF Notice
<1>6. CASE to = {} /\ others = {}
  <2>1. notices = <<>>
    BY <1>4, <1>5, <1>6
  <2> QED
    BY <2>1
<1>7. CASE to = {} /\ others # {}
  <2>1. notices = <<two>>
    BY <1>4, <1>5, <1>7
  <2> QED
    BY <1>3, <2>1
<1>8. CASE to # {} /\ others = {}
  <2>1. notices = <<one>>
    BY <1>4, <1>5, <1>8
  <2> QED
    BY <1>3, <2>1
<1>9. CASE to # {} /\ others # {}
  <2>1. notices = <<one>> \o <<two>>
    BY <1>4, <1>5, <1>9
  <2>2. DOMAIN notices = {1, 2} /\ notices[1] = one /\ notices[2] = two
    BY <2>1
  <2> QED
    BY <1>3, <2>2
<1> QED
  BY <1>6, <1>7, <1>8, <1>9

\* Each plan tells everybody (calendar_prepare.rs; split.rs; exceptions.rs).
LEMMA WholeTells ==
    ASSUME NEW event, IsEvent(event), NEW input, input.is \in {"update", "delete", "cancel"},
           input.is = "delete" => Everyone(event) = {},
           NEW plan, plan = EditWhole(event, input), plan # Refused, NEW scope
    PROVE  Tells("edit", event, scope, plan.steps, plan.notices)
<1>0. Fields \subseteq DOMAIN event
  BY EventFacts
<1>1. CASE input.is = "update"
  <2>1. PICK new : new = Update(event, input)
    OBVIOUS
  <2>2. new.uid = event.uid /\ new.meeting = (Everyone(new) # {})
    BY <1>0, <2>1, UpdatedFields
  <2>a. PICK recipients : recipients = Recipients(event, new)
    OBVIOUS
  <2>b. PICK gone : gone = GoneFrom(event, new)
    OBVIOUS
  <2>c. PICK one : one = Notice(new, All, recipients, "request")
    OBVIOUS
  <2>d. PICK two : two = Notice(event, All, gone, "cancel")
    OBVIOUS
  <2>3. PICK notices : notices = one \o two
    OBVIOUS
  <2>4. plan = [steps |-> <<Step("update", new)>>, notices |-> notices]
    BY <1>1, <2>1, <2>a, <2>b, <2>c, <2>d, <2>3 DEF EditWhole, GoneFrom
  <2>5. plan.steps = <<Step("update", new)>> /\ plan.notices = notices
    BY <2>4
  <2>6. WrittenBy(plan.steps) = {new}
    BY <2>5, StepsWrite
  <2>7. ASSUME NEW p \in People
        PROVE  \/ Received(Entries(event, p), notices, p) = Entries(new, p)
               \/ /\ OnlyRoster(event, new) /\ p \in Everyone(new)
                  /\ p \in Invited(event.attendees) \ Invited(new.attendees)
    BY <1>0, <2>2, <2>a, <2>b, <2>c, <2>d, <2>3, WholeIsTold
  <2>8. ASSUME OnlyRoster(event, new), NEW slot \in event.first .. event.last,
               slot \notin DOMAIN event.exceptions, NEW n \in DOMAIN notices, NEW p \in notices[n].to
        PROVE  Entries(event, p) # Entries(new, p)
    <3>1. notices[n].to \in {recipients, gone}
      BY <2>c, <2>d, <2>3, NoticesTo
    <3>2. p \in Recipients(event, new) \/ p \in Everyone(event) \ Everyone(new)
      BY <2>8, <2>a, <2>b, <3>1 DEF GoneFrom
    <3>3. Recipients(event, new) \subseteq People
      BY EveryoneIsPeople DEF Recipients, Invited
    <3>4. p \in People
      BY <3>2, <3>3, EveryoneIsPeople
    <3> QED
      BY <2>8, <3>2, <3>4, NobodyIsToldInVain
  <2>9. \A p : UNION {Entries(e, p) : e \in WrittenBy(plan.steps)} = Entries(new, p)
    BY <2>6, UnionOfOne
  <2>10. \A e : e \in WrittenBy(plan.steps) <=> e = new
    BY <2>6
  <2>11. \A p \in People :
            \/ Received(Entries(event, p), plan.notices, p) = UNION {Entries(e, p) : e \in WrittenBy(plan.steps)}
            \/ \E e \in WrittenBy(plan.steps) :
                  /\ OnlyRoster(event, e) /\ p \in Everyone(e)
                  /\ p \in Invited(event.attendees) \ Invited(e.attendees)
    BY <2>5, <2>7, <2>9, <2>10
  <2>12. ASSUME \E e \in WrittenBy(plan.steps) : OnlyRoster(event, e),
               \E slot \in event.first .. event.last : slot \notin DOMAIN event.exceptions,
               NEW n \in DOMAIN plan.notices, NEW p \in plan.notices[n].to
         PROVE  Entries(event, p) # UNION {Entries(e, p) : e \in WrittenBy(plan.steps)}
    BY <2>5, <2>8, <2>9, <2>10, <2>12
  <2> QED
    BY <2>2, <2>10, <2>11, <2>12 DEF Tells
<1>2. CASE input.is = "delete"
  <2>1. plan = [steps |-> <<Step("delete", event)>>, notices |-> <<>>]
    BY <1>2 DEF EditWhole
  <2>2. plan.steps = <<Step("delete", event)>> /\ plan.notices = <<>>
    BY <2>1
  <2>3. WrittenBy(plan.steps) = {}
    BY <2>2, StepsWrite
  <2>4. ASSUME NEW p \in People
        PROVE  Received(Entries(event, p), <<>>, p) = {}
    <3>1. PICK none : none = <<>>
      OBVIOUS
    <3>2. MayBeOne(none)
      BY <3>1 DEF MayBeOne
    <3>3. PICK shown : shown = Entries(event, p)
      OBVIOUS
    <3>4. Received(shown, none, p) = Got(shown, none, p)
      BY <3>2, ReceivedOne
    <3>5. Got(shown, none, p) = shown
      BY <3>1 DEF Got
    <3>6. shown = {}
      BY <1>2, <3>3, NothingForOthers
    <3> QED
      BY <3>1, <3>3, <3>4, <3>5, <3>6
  <2>5. \A p : UNION {Entries(e, p) : e \in {}} = {}
    OBVIOUS
  <2> QED
    BY <2>2, <2>3, <2>4, <2>5 DEF Tells
<1>3. CASE input.is = "cancel"
  <2>0. PICK notices : notices = Notice(event, All, Everyone(event), "cancel")
    OBVIOUS
  <2>1. plan = [steps |-> <<Step("delete", event)>>, notices |-> notices]
    BY <1>3, <2>0 DEF EditWhole
  <2>2. plan.steps = <<Step("delete", event)>> /\ plan.notices = notices
    BY <2>1
  <2>3. WrittenBy(plan.steps) = {}
    BY <2>2, StepsWrite
  <2>4. ASSUME NEW p \in People
        PROVE  Received(Entries(event, p), notices, p) = {}
    BY <2>0, CancellationIsTold
  <2>5. \A p : UNION {Entries(e, p) : e \in {}} = {}
    OBVIOUS
  <2> QED
    BY <2>2, <2>3, <2>4, <2>5 DEF Tells
<1> QED
  BY <1>1, <1>2, <1>3

LEMMA FollowingTells ==
    ASSUME NEW event, IsEvent(event), NEW input, input.is \in {"update", "delete", "cancel"},
           input.slot \in event.first .. event.last,
           NEW plan, plan = EditFollowing(event, input), plan # Refused, NEW scope
    PROVE  Tells("edit", event, scope, plan.steps, plan.notices)
<1>0. /\ Fields \subseteq DOMAIN event /\ event.uid \in Int /\ event.first \in Int /\ event.last \in Int
  BY EventFacts
<1>1. PICK part : part = Part(event, input.slot, event.last)
  OBVIOUS
<1>2. Fields \subseteq DOMAIN part /\ part.uid = event.uid
  BY <1>0, <1>1, PartFields
<1>3. PICK tail : tail = [part EXCEPT !.uid = @ + 1]
  OBVIOUS
<1>4. Fields \subseteq DOMAIN tail /\ tail.uid = event.uid + 1
  BY <1>2, <1>3 DEF Fields
<1>5. PICK new : new = Update(tail, input)
  OBVIOUS
<1>6. new.uid = event.uid + 1 /\ new.meeting = (Everyone(new) # {})
  BY <1>4, <1>5, UpdatedFields
<1>7. PICK rest : rest = Part(event, event.first, input.slot - 1)
  OBVIOUS
<1>8. Fields \subseteq DOMAIN rest /\ rest.uid = event.uid /\ rest.last = input.slot - 1
  BY <1>0, <1>7, PartFields
<1>9. PICK shortened : shortened = RefreshStatus(rest)
  OBVIOUS
<1>10. /\ shortened.uid = event.uid /\ shortened.last = input.slot - 1
       /\ shortened.meeting = (Everyone(shortened) # {})
  BY <1>8, <1>9, RefreshedFields
<1>11. ~OnlyRoster(event, shortened) /\ ~OnlyRoster(event, new)
  <2>1. shortened.last # event.last /\ new.uid # event.uid
    BY <1>0, <1>6, <1>10
  <2> QED
    BY <1>0, <2>1, RosterFields
<1>12. PICK one : one = IF input.is = "update" THEN Notice(new, All, Everyone(new), "request") ELSE <<>>
  OBVIOUS
<1>a. PICK stay : stay = Everyone(shortened)
  OBVIOUS
<1>b. PICK gone : gone = GoneFrom(event, shortened)
  OBVIOUS
<1>c. PICK two : two = Notice(shortened, All, stay, "request")
  OBVIOUS
<1>d. PICK three : three = Notice(event, All, gone, "cancel")
  OBVIOUS
<1>13. PICK notices : notices = one \o two \o three
  OBVIOUS
<1>14. PICK steps : steps =
           (IF input.is = "update" THEN <<Step("create", new)>> ELSE <<>>) \o <<Step("update", shortened)>>
  OBVIOUS
<1>15. plan = [steps |-> steps, notices |-> notices]
  BY <1>1, <1>3, <1>5, <1>7, <1>9, <1>12, <1>13, <1>14, <1>a, <1>b, <1>c, <1>d DEF EditFollowing, GoneFrom
<1>16. plan.steps = steps /\ plan.notices = notices
  BY <1>15
<1>17. MayBeOne(one)
  BY <1>12, NoticeIsOne DEF MayBeOne
<1>18. CASE input.is = "update"
  <2>1. WrittenBy(steps) = {new, shortened}
    BY <1>14, <1>18, StepsWrite
  <2>2. ASSUME NEW p \in People
        PROVE  Received(Entries(event, p), notices, p) = Entries(shortened, p) \union Entries(new, p)
    <3>1. PICK shown : shown = Entries(event, p)
      OBVIOUS
    <3>2. \A x \in shown : x.uid = event.uid
      BY <3>1, EntriesMembers, EntryFields
    <3>3. PICK to : to = Everyone(new)
      OBVIOUS
    <3>4. one = Notice(new, All, to, "request")
      BY <1>12, <1>18, <3>3
    <3>5. Got(shown, one, p) = shown \union Entries(new, p)
      <4>1. CASE p \in to
        <5>1. Got(shown, one, p) =
                  Deliver(shown, [event |-> new, slot |-> All, to |-> to, method |-> "request"], p)
          BY <3>4, <4>1, GotNotice
        <5>2. Got(shown, one, p) = {x \in shown : x.uid # new.uid} \union Entries(new, p)
          BY <4>1, <5>1, InvitedAnew
        <5> QED
          BY <1>0, <1>6, <3>2, <5>2
      <4>2. CASE p \notin to
        <5>1. Got(shown, one, p) = shown
          BY <3>4, <4>2, NotTold
        <5>2. Entries(new, p) = {}
          BY <3>3, <4>2, NothingForOthers
        <5> QED
          BY <5>1, <5>2
      <4> QED
        BY <4>1, <4>2
    <3>6. new.uid # event.uid
      BY <1>0, <1>6
    <3>7. PICK later : later = Entries(new, p)
      OBVIOUS
    <3>8. \A x \in later : x.uid # event.uid
      BY <3>6, <3>7, EntriesMembers, EntryFields
    <3>9. Got(Entries(event, p), one, p) = Entries(event, p) \union later
      BY <3>1, <3>5, <3>7
    <3>e10. Received(Entries(event, p), one \o Notice(shortened, All, Everyone(shortened), "request")
                                            \o Notice(event, All, GoneFrom(event, shortened), "cancel"), p)
                = Entries(shortened, p) \union later
      BY <1>10, <1>17, <3>8, <3>9, SplitIsTold
    <3>10. Received(Entries(event, p), notices, p) = Entries(shortened, p) \union later
      BY <1>13, <1>a, <1>b, <1>c, <1>d, <3>e10
    <3> QED
      BY <3>7, <3>10
  <2> QED
    BY <1>6, <1>10, <1>11, <1>16, <2>1, <2>2, UnionOfTwo DEF Tells
<1>19. CASE input.is # "update"
  <2>1. WrittenBy(steps) = {shortened}
    BY <1>14, <1>19, StepsWrite
  <2>2. ASSUME NEW p \in People
        PROVE  Received(Entries(event, p), notices, p) = Entries(shortened, p)
    <3>1. PICK later : later = {}
      OBVIOUS
    <3>2. \A x \in later : x.uid # event.uid
      BY <3>1
    <3>3. Got(Entries(event, p), one, p) = Entries(event, p) \union later
      BY <1>12, <1>19, <3>1 DEF Got
    <3>e4. Received(Entries(event, p), one \o Notice(shortened, All, Everyone(shortened), "request")
                                            \o Notice(event, All, GoneFrom(event, shortened), "cancel"), p)
                = Entries(shortened, p) \union later
      BY <1>10, <1>17, <3>2, <3>3, SplitIsTold
    <3>4. Received(Entries(event, p), notices, p) = Entries(shortened, p) \union later
      BY <1>13, <1>a, <1>b, <1>c, <1>d, <3>e4
    <3> QED
      BY <3>1, <3>4
  <2> QED
    BY <1>10, <1>11, <1>16, <2>1, <2>2, UnionOfOne DEF Tells
<1> QED
  BY <1>18, <1>19

\* The organizer's own calendar with the change of one occurrence.
ChangedAt(event, slot, change) ==
    RefreshStatus([event EXCEPT
        !.exceptions = [s \in DOMAIN @ \union {slot} |-> IF s = slot THEN change ELSE @[s]]])

\* It is the same everywhere else.
LEMMA ChangedFields ==
    ASSUME NEW event, Fields \subseteq DOMAIN event, NEW slot, NEW change,
           NEW changed, changed = ChangedAt(event, slot, change)
    PROVE  /\ changed.uid = event.uid /\ changed.first = event.first /\ changed.last = event.last
           /\ changed.content = event.content /\ changed.attendees = event.attendees
           /\ changed.meeting = (Everyone(changed) # {})
           /\ ChangeOf(changed, slot) = change
           /\ \A s : s # slot => ChangeOf(changed, s) = ChangeOf(event, s)
<1>1. PICK exceptions : exceptions = [s \in DOMAIN event.exceptions \union {slot} |->
                                          IF s = slot THEN change ELSE event.exceptions[s]]
  OBVIOUS
<1>2. PICK own : own = [event EXCEPT !.exceptions = exceptions]
  OBVIOUS
<1>3. /\ Fields \subseteq DOMAIN own /\ own.uid = event.uid /\ own.first = event.first /\ own.last = event.last
      /\ own.content = event.content /\ own.attendees = event.attendees /\ own.exceptions = exceptions
  BY <1>2 DEF Fields
<1>4. changed = RefreshStatus(own)
  BY <1>1, <1>2 DEF ChangedAt
<1>5. /\ changed.uid = event.uid /\ changed.first = event.first /\ changed.last = event.last
      /\ changed.content = event.content /\ changed.attendees = event.attendees
      /\ changed.exceptions = exceptions /\ changed.meeting = (Everyone(changed) # {})
  BY <1>3, <1>4, RefreshedFields
<1>6. ChangeOf(changed, slot) = change
  BY <1>1, <1>5 DEF ChangeOf
<1>7. ASSUME NEW s, s # slot PROVE ChangeOf(changed, s) = ChangeOf(event, s)
  BY <1>1, <1>5, <1>7 DEF ChangeOf
<1> QED
  BY <1>5, <1>6, <1>7

LEMMA NothingBefore ==
    ASSUME NEW event, NEW slot, NEW to, NEW method
    PROVE  <<>> \o Notice(event, slot, to, method) = Notice(event, slot, to, method)
<1>1. PICK notices : notices = Notice(event, slot, to, method)
  OBVIOUS
<1>2. MayBeOne(notices)
  BY <1>1, NoticeIsOne
<1>3. PICK S : notices \in Seq(S)
  <2>1. notices \in Seq({notices[1]})
    BY <1>2, OneIsASequence
  <2> QED
    BY <2>1
<1>4. <<>> \o notices = notices
  BY <1>3, ConcatEmptySeq
<1> QED
  BY <1>1, <1>4

LEMMA OccurrenceTells ==
    ASSUME NEW event, IsEvent(event), NEW input, input.is \in {"update", "delete", "cancel"},
           input.is = "delete" => Everyone(event) = {},
           input.slot \in event.first .. event.last, Occurs(event, input.slot),
           NEW plan, plan = EditOccurrence(event, input), plan # Refused
    PROVE  Tells("edit", event, "occurrence", plan.steps, plan.notices)
<1>0. /\ Fields \subseteq DOMAIN event /\ event.first \in Nat \ {0} /\ event.last \in Int
  BY EventFacts
<1>1. PICK slot : slot = input.slot
  OBVIOUS
<1>2. slot # All /\ slot \in event.first .. event.last /\ Occurs(event, slot)
  BY <1>0, <1>1 DEF All
<1>3. PICK change : change =
          IF input.is # "update" THEN Deleted
          ELSE [deleted |-> FALSE, attendees |-> Merge(ChangeOf(event, slot).attendees, input.attendees),
                content |-> Merge(ChangeOf(event, slot).content, input.content)]
  OBVIOUS
<1>4. PICK changed : changed = ChangedAt(event, slot, change)
  OBVIOUS
<1>5. /\ changed.uid = event.uid /\ changed.first = event.first /\ changed.last = event.last
      /\ changed.content = event.content /\ changed.attendees = event.attendees
      /\ changed.meeting = (Everyone(changed) # {})
      /\ ChangeOf(changed, slot) = change
      /\ \A s : s # slot => ChangeOf(changed, s) = ChangeOf(event, s)
  BY <1>0, <1>4, ChangedFields
<1>6. PICK before : before = Invited(AttendeesAt(event, slot))
  OBVIOUS
<1>7. PICK after : after = IF input.is = "update" THEN Invited(AttendeesAt(changed, slot)) ELSE {}
  OBVIOUS
<1>g. PICK gone : gone = before \ after
  OBVIOUS
<1>8. PICK notices : notices = Notice(changed, slot, after, "request") \o Notice(event, slot, gone, "cancel")
  OBVIOUS
<1>9. plan.steps = <<Step("update", changed)>> /\ plan.notices = notices
  <2>1. before = {} \/ input.is # "delete"
    <3>1. \A p \in People : AttendeesAt(event, slot)[p] # Out => p \in Everyone(event)
      BY <1>2, ThoseShownAreInvited DEF ShownIn
    <3> QED
      BY <1>6, <3>1 DEF Invited
  <2>2. CASE input.is = "update"
    <3>1. plan = [steps |-> <<Step("update", changed)>>, notices |-> notices]
      BY <1>1, <1>3, <1>4, <1>6, <1>7, <1>8, <1>g, <2>2 DEF EditOccurrence, ChangedAt
    <3> QED
      BY <3>1
  <2>3. CASE input.is = "cancel"
    <3>1. plan = [steps |-> <<Step("update", changed)>>, notices |-> Notice(event, slot, before, "cancel")]
      BY <1>1, <1>3, <1>4, <1>6, <2>3 DEF EditOccurrence, ChangedAt
    <3>2. gone = before /\ Notice(changed, slot, after, "request") = <<>>
      BY <1>7, <1>g, <2>3 DEF Notice
    <3>3. notices = <<>> \o Notice(event, slot, before, "cancel")
      BY <1>8, <3>2
    <3>4. notices = Notice(event, slot, before, "cancel")
      BY <3>3, NothingBefore
    <3> QED
      BY <3>1, <3>4
  <2>4. CASE input.is = "delete"
    <3>1. plan = [steps |-> <<Step("update", changed)>>, notices |-> <<>>]
      BY <1>1, <1>3, <1>4, <1>6, <2>4 DEF EditOccurrence, ChangedAt
    <3>2. /\ Notice(changed, slot, after, "request") = <<>>
          /\ Notice(event, slot, gone, "cancel") = <<>>
      BY <1>7, <1>g, <2>1, <2>4 DEF Notice
    <3>3. notices = <<>> \o <<>>
      BY <1>8, <3>2
    <3>4. notices = <<>>
      BY <3>3
    <3> QED
      BY <3>1, <3>4
  <2> QED
    BY <2>2, <2>3, <2>4
<1>10. /\ Occurs(changed, slot) => after = Invited(AttendeesAt(changed, slot))
       /\ ~Occurs(changed, slot) => after = {}
  <2>1. CASE input.is = "update"
    <3>1. change.deleted = FALSE
      BY <1>3, <2>1
    <3>2. Occurs(changed, slot)
      BY <1>2, <1>5, <3>1 DEF Occurs
    <3> QED
      BY <1>7, <2>1, <3>2
  <2>2. CASE input.is # "update"
    <3>1. change.deleted = TRUE
      BY <1>3, <2>2 DEF Deleted, NoChange
    <3>2. ~Occurs(changed, slot)
      BY <1>5, <3>1 DEF Occurs
    <3> QED
      BY <1>7, <2>2, <3>2
  <2> QED
    BY <2>1, <2>2
<1>11. ASSUME NEW p \in People
       PROVE  Received(Entries(event, p), notices, p) = Entries(changed, p)
  <2>1. \A s : s # slot => /\ ShownIn(event, s, p) <=> ShownIn(changed, s, p)
                           /\ EntryOf(event, s, p) = EntryOf(changed, s, p)
    BY <1>5 DEF ShownIn, EntryOf, Occurs, AttendeesAt, ContentAt
  <2>2. \A q : q \in gone <=> q \in before /\ q \notin after
    BY <1>g
  <2>3. Received(Entries(event, p),
                 Notice(changed, slot, after, "request") \o Notice(event, slot, gone, "cancel"), p)
            = Entries(changed, p)
    BY <1>2, <1>5, <1>6, <1>10, <2>1, <2>2, OccurrenceIsTold
  <2> QED
    BY <1>8, <2>3
<1>12. WrittenBy(plan.steps) = {changed}
  BY <1>9, StepsWrite
<1> QED
  BY <1>5, <1>9, <1>11, <1>12, UnionOfOne DEF Tells

\* A scope is one occurrence only if an input says so, and then it takes place.
LEMMA ScopeIsOfAnOccurrence ==
    ASSUME NEW event, event.recurring \in BOOLEAN, NEW input, input.scope \in Scopes,
           NEW scope, scope = ResolveScope(event, input), scope # "refused"
    PROVE  /\ scope \in {"series", "occurrence", "following"}
           /\ scope \in {"occurrence", "following"} => Occurs(event, input.slot)
           /\ scope = "occurrence" => input.scope = "occurrence" /\ event.recurring /\ input.slot # All
           /\ input.slot # All => Occurs(event, input.slot)
           /\ event.recurring /\ input.scope = "occurrence" => scope = "occurrence"
<1>1. CASE event.recurring = FALSE
  <2>1. scope = IF input.slot = All /\ input.scope \in {"absent", "series"} THEN "series" ELSE "refused"
    BY <1>1 DEF ResolveScope
  <2> QED
    BY <1>1, <2>1
<1>2. CASE event.recurring = TRUE /\ input.slot = All
  <2>1. scope = IF input.scope = "series" THEN "series" ELSE "refused"
    BY <1>2 DEF ResolveScope
  <2> QED
    BY <1>2, <2>1
<1>3. CASE event.recurring = TRUE /\ input.slot # All
  <2>1. scope = IF input.scope = "absent" \/ ~Occurs(event, input.slot) THEN "refused"
                ELSE IF input.scope = "following" /\ input.slot = event.first THEN "series" ELSE input.scope
    BY <1>3 DEF ResolveScope
  <2>2. Occurs(event, input.slot)
    BY <2>1
  <2> QED
    BY <1>3, <2>1, <2>2 DEF Scopes
<1> QED
  BY <1>1, <1>2, <1>3

\* Whatever plan an input asks for, it tells everybody.
LEMMA EditTells ==
    ASSUME NEW event, IsEvent(event), NEW input \in Updates \union Removals,
           NEW plan, plan = Plan(event, input), plan # Refused
    PROVE  Tells("edit", event, input.scope, plan.steps, plan.notices)
<1>1. input.is \in {"update", "delete", "cancel"} /\ input.scope \in Scopes
  BY DEF Updates, Removals
<1>2. event.recurring \in BOOLEAN
  BY EventFacts
<1>3. PICK scope : scope = ResolveScope(event, input)
  OBVIOUS
<1>4. scope # "refused"
  BY <1>3 DEF Plan
<1>5. input.is = "delete" => Ownership(event) = "personal"
  BY <1>3 DEF Plan
<1>6. /\ scope = "series" => plan = EditWhole(event, input)
      /\ scope = "occurrence" => plan = EditOccurrence(event, input)
      /\ scope = "following" => plan = EditFollowing(event, input)
  BY <1>3, <1>4 DEF Plan
<1>8. input.is = "delete" => Everyone(event) = {}
  BY <1>5 DEF Ownership
<1>9. /\ scope \in {"series", "occurrence", "following"}
      /\ scope \in {"occurrence", "following"} => Occurs(event, input.slot)
      /\ scope = "occurrence" => input.scope = "occurrence"
  BY <1>1, <1>2, <1>3, <1>4, ScopeIsOfAnOccurrence
<1>10. CASE scope = "series"
  BY <1>1, <1>6, <1>8, <1>10, WholeTells
<1>11. CASE scope = "occurrence"
  <2>1. plan = EditOccurrence(event, input) /\ Occurs(event, input.slot) /\ input.scope = "occurrence"
    BY <1>6, <1>9, <1>11
  <2>2. input.slot \in event.first .. event.last
    BY <2>1 DEF Occurs
  <2> QED
    BY <1>1, <1>8, <2>1, <2>2, OccurrenceTells
<1>12. CASE scope = "following"
  <2>1. plan = EditFollowing(event, input) /\ Occurs(event, input.slot)
    BY <1>6, <1>9, <1>12
  <2>2. input.slot \in event.first .. event.last
    BY <2>1 DEF Occurs
  <2> QED
    BY <1>1, <2>1, <2>2, FollowingTells
<1> QED
  BY <1>9, <1>10, <1>11, <1>12

\* An answer goes to the occurrence or the event that was asked for.
LEMMA ResponsesReachTheirEvent ==
    ASSUME NEW event, event.recurring \in BOOLEAN, NEW input, input.scope \in Scopes,
           NEW reply, reply = RespondToEvent(event, input), reply # NoAnswer,
           NEW meant, meant = IF event.recurring /\ input.scope = "occurrence" THEN input.slot ELSE All
    PROVE  /\ reply.exchange = {meant}
           /\ reply.reply = IF event.requested THEN {meant} ELSE {}
           /\ input.slot # All => Occurs(event, input.slot)
<1>1. PICK scope : scope = ResolveScope(event, input)
  OBVIOUS
<1>2. PICK slot : slot = IF scope = "occurrence" THEN input.slot ELSE All
  OBVIOUS
<1>3. scope # "refused" /\ reply = [exchange |-> {slot}, reply |-> IF event.requested THEN {slot} ELSE {}]
  BY <1>1, <1>2 DEF RespondToEvent
<1>4. /\ scope = "occurrence" <=> event.recurring /\ input.scope = "occurrence"
      /\ input.slot # All => Occurs(event, input.slot)
  BY <1>1, <1>3, ScopeIsOfAnOccurrence
<1>5. meant = slot
  BY <1>2, <1>4
<1> QED
  BY <1>3, <1>4, <1>5

\* Events are asked about first, and answered then.
PeopleInv ==
    /\ PeopleAreTold
    /\ question.is = "meeting" => question.event \in Meetings

LEMMA MailsAreNoMeetings ==
    MeetingInit => /\ question.is \in {"meeting", "mail"}
                   /\ question.is = "meeting" => question.event \in Meetings
BY DEF MeetingInit, MeetingQuestions

\* Each question is answered as it has to be.
LEMMA ToldAtFirst == MeetingInit => PeopleInv
BY MailsAreNoMeetings DEF PeopleInv, PeopleAreTold, AttendeesAreTold, AnswersReachTheirEvent, MailsAreAnsweredWhole

LEMMA CreateIsTold == PeopleInv /\ AskCreate => PeopleInv'
<1> SUFFICES ASSUME PeopleInv, AskCreate PROVE PeopleInv'
  OBVIOUS
<1>1. PICK event : event = question.event /\ event \in Meetings
  BY DEF PeopleInv, AskCreate
<1>2. IsEvent(event) /\ DOMAIN event.exceptions = {}
  BY <1>1, MeetingsAreEvents DEF AskCreate
<1>3. answer' = Create(event) /\ question'.is = "create" /\ question'.event = event
  BY <1>1 DEF AskCreate
<1>4. \A scope : Tells("create", event, scope, answer'.steps, answer'.notices)
  BY <1>2, <1>3, CreateTells
<1>5. /\ \A p \in People : Received({}, answer'.notices, p) = UNION {Entries(e, p) : e \in WrittenBy(answer'.steps)}
      /\ \A e \in WrittenBy(answer'.steps) : e.meeting = (Everyone(e) # {})
  BY <1>4 DEF Tells
<1>6. /\ Written' = WrittenBy(answer'.steps)
      /\ \A p : ShownBefore(p)' = {} /\ ShownAfter(p)' = UNION {Entries(e, p) : e \in Written'}
      /\ \A e : ~RosterOnly(e)'
  BY <1>3 DEF Written, WrittenBy, ShownBefore, ShownAfter, RosterOnly
<1>7. AttendeesAreTold'
  BY <1>3, <1>5, <1>6 DEF AttendeesAreTold
<1>8. AnswersReachTheirEvent' /\ MailsAreAnsweredWhole'
  BY <1>3 DEF AnswersReachTheirEvent, MailsAreAnsweredWhole
<1> QED
  BY <1>3, <1>7, <1>8 DEF PeopleInv, PeopleAreTold

LEMMA EditIsTold == PeopleInv /\ AskEdit => PeopleInv'
<1> SUFFICES ASSUME PeopleInv, AskEdit PROVE PeopleInv'
  OBVIOUS
<1>1. PICK event : event = question.event /\ event \in Meetings
  BY DEF PeopleInv, AskEdit
<1>2. IsEvent(event)
  BY <1>1, MeetingsAreEvents
<1>3. PICK input \in Edits : /\ Plan(event, input) # Refused
                             /\ question' = [is |-> "edit", event |-> event, input |-> input]
                             /\ answer' = Plan(event, input)
  BY <1>1 DEF AskEdit
<1>4. question'.is = "edit" /\ question'.event = event /\ question'.input = input
  BY <1>3
<1>5. Tells("edit", event, input.scope, answer'.steps, answer'.notices)
  BY <1>2, <1>3, EditsAreInputs, EditTells
<1>6. /\ Written' = WrittenBy(answer'.steps)
      /\ \A p : ShownBefore(p)' = Entries(event, p) /\ ShownAfter(p)' = UNION {Entries(e, p) : e \in Written'}
      /\ \A e : RosterOnly(e)' <=> OnlyRoster(event, e)
  BY <1>4 DEF Written, WrittenBy, ShownBefore, ShownAfter, RosterOnly, OnlyRoster
<1>7. \A p \in People : Received(ShownBefore(p)', answer'.notices, p) = ShownAfter(p)' \/ KeptSilently(p)'
  BY <1>4, <1>5, <1>6 DEF Tells, KeptSilently
<1>8. \A e \in Written' : e.meeting = (Everyone(e) # {})
  BY <1>5, <1>6 DEF Tells
<1>9. /\ \E e \in Written' : RosterOnly(e)'
      /\ input.scope # "occurrence"
      /\ \E slot \in event.first .. event.last : slot \notin DOMAIN event.exceptions
      => \A n \in DOMAIN answer'.notices : \A p \in answer'.notices[n].to : ShownBefore(p)' # ShownAfter(p)'
  BY <1>5, <1>6 DEF Tells
<1>10. AttendeesAreTold'
  BY <1>4, <1>7, <1>8, <1>9 DEF AttendeesAreTold
<1>11. AnswersReachTheirEvent' /\ MailsAreAnsweredWhole'
  BY <1>4 DEF AnswersReachTheirEvent, MailsAreAnsweredWhole
<1> QED
  BY <1>4, <1>10, <1>11 DEF PeopleInv, PeopleAreTold

LEMMA ResponseIsTold == PeopleInv /\ AskResponse => PeopleInv'
<1> SUFFICES ASSUME PeopleInv, AskResponse PROVE PeopleInv'
  OBVIOUS
<1>1. PICK asked : asked = question.event /\ asked \in Meetings
  BY DEF PeopleInv, AskResponse
<1>2. Fields \subseteq DOMAIN asked /\ asked.recurring \in BOOLEAN
  BY <1>1, MeetingsAreEvents, EventFacts
<1>3. PICK scope \in Scopes, slot \in Slots, requested \in BOOLEAN :
          LET event == [asked EXCEPT !.mine = FALSE, !.meeting = TRUE, !.requested = requested]
              input == [scope |-> scope, slot |-> slot]
          IN  /\ question' = [is |-> "response", event |-> event, input |-> input]
              /\ answer' = RespondToEvent(event, input)
  BY <1>1 DEF AskResponse
<1>4. PICK event : event = [asked EXCEPT !.mine = FALSE, !.meeting = TRUE, !.requested = requested]
  OBVIOUS
<1>5. PICK input : input = [scope |-> scope, slot |-> slot]
  OBVIOUS
<1>6. event.recurring \in BOOLEAN /\ input.scope \in Scopes
  BY <1>2, <1>4, <1>5 DEF Fields
<1>7. question'.is = "response" /\ question'.event = event /\ question'.input = input
  BY <1>3, <1>4, <1>5
<1>8. answer' = RespondToEvent(event, input)
  BY <1>3, <1>4, <1>5
<1>9. PICK meant : meant = IF event.recurring /\ input.scope = "occurrence" THEN input.slot ELSE All
  OBVIOUS
<1>10. answer' # NoAnswer =>
           /\ answer'.exchange = {meant}
           /\ answer'.reply = IF event.requested THEN {meant} ELSE {}
           /\ input.slot # All => Occurs(event, input.slot)
  BY <1>6, <1>8, <1>9, ResponsesReachTheirEvent
<1>11. AnswersReachTheirEvent'
  BY <1>7, <1>9, <1>10 DEF AnswersReachTheirEvent
<1>12. AttendeesAreTold' /\ MailsAreAnsweredWhole'
  BY <1>7 DEF AttendeesAreTold, MailsAreAnsweredWhole
<1> QED
  BY <1>7, <1>11, <1>12 DEF PeopleInv, PeopleAreTold

LEMMA MailResponseIsTold == PeopleInv /\ AskMailResponse => PeopleInv'
<1> SUFFICES ASSUME PeopleInv, AskMailResponse PROVE PeopleInv'
  OBVIOUS
<1>1. PICK mail : mail = question.mail
  OBVIOUS
<1>2. PICK scope \in Scopes : /\ question' = [is |-> "mail response", mail |-> mail, scope |-> scope]
                              /\ answer' = RespondToMail(mail, [scope |-> scope])
  BY <1>1 DEF AskMailResponse
<1>3. question'.is = "mail response" /\ question'.mail = mail
  BY <1>2
<1>4. MailsAreAnsweredWhole'
  BY <1>2, <1>3 DEF MailsAreAnsweredWhole, RespondToMail
<1>5. AttendeesAreTold' /\ AnswersReachTheirEvent'
  BY <1>3 DEF AttendeesAreTold, AnswersReachTheirEvent
<1> QED
  BY <1>3, <1>4, <1>5 DEF PeopleInv, PeopleAreTold

LEMMA NobodyAsksIsTold == PeopleInv /\ UNCHANGED <<question, answer>> => PeopleInv'
<1> SUFFICES ASSUME PeopleInv, question' = question, answer' = answer PROVE PeopleInv'
  OBVIOUS
<1>1. /\ Written' = Written
      /\ \A p : ShownBefore(p)' = ShownBefore(p) /\ ShownAfter(p)' = ShownAfter(p)
      /\ \A e : RosterOnly(e)' <=> RosterOnly(e)
      /\ \A p : KeptSilently(p)' <=> KeptSilently(p)
  BY DEF Written, ShownBefore, ShownAfter, RosterOnly, KeptSilently
<1>2. AttendeesAreTold'
  BY <1>1 DEF PeopleInv, PeopleAreTold, AttendeesAreTold
<1>3. AnswersReachTheirEvent' /\ MailsAreAnsweredWhole'
  BY DEF PeopleInv, PeopleAreTold, AnswersReachTheirEvent, MailsAreAnsweredWhole
<1> QED
  BY <1>2, <1>3 DEF PeopleInv, PeopleAreTold

\* Whatever is asked of whichever event, everybody else's calendar shows what
\* the organizer's does, and answers reach the event they are about
\* (runtime/calendar_writes.rs, calendar_prepare.rs, calendar_series,
\* calendar_respond.rs).
THEOREM PeopleHold == MeetingSpec => []PeopleAreTold
<1>1. PeopleInv /\ [AskMeeting]_<<question, answer>> => PeopleInv'
  BY CreateIsTold, EditIsTold, ResponseIsTold, MailResponseIsTold, NobodyAsksIsTold DEF AskMeeting
<1>2. PeopleInv => PeopleAreTold
  BY DEF PeopleInv
<1> QED
  BY ToldAtFirst, <1>1, <1>2, PTL DEF MeetingSpec

----
(* Functions that are defined from one number to the next *)

\* Induction, stated of a set: every set of numbers has a least one.
LEMMA LeastNatural ==
    ASSUME NEW S, S \subseteq Nat, NEW m \in S
    PROVE  \E least \in S : \A n \in S : least <= n
<1>1. IsFiniteSet(0 .. m)
  BY FS_Interval, 0 \in Int, m \in Int
<1> DEFINE T == {0 .. n : n \in {k \in S : k <= m}}
<1>2. T \subseteq SUBSET (0 .. m) /\ T # {}
  <2>1. 0 .. m \in T
    OBVIOUS
  <2>2. ASSUME NEW t \in T
        PROVE  t \subseteq 0 .. m
    <3>1. PICK n \in S : n <= m /\ t = 0 .. n
      BY <2>2
    <3>2. n \in Nat /\ m \in Nat
      OBVIOUS
    <3> QED
      BY <3>1, <3>2
  <2> QED
    BY <2>1, <2>2
<1>3. PICK t \in T : \A u \in T : ~(<<u, t>> \in StrictSubsetOrdering(0 .. m))
  <2>1. IsWellFoundedOn(StrictSubsetOrdering(0 .. m), FiniteSubsetsOf(0 .. m))
    BY FS_StrictSubsetOrderingWellFounded
  <2>2. FiniteSubsetsOf(0..m) = SUBSET (0 .. m)
    BY <1>1, FS_FiniteSubsetsOfFinite
  <2> HIDE DEF T
  <2>3. T \subseteq FiniteSubsetsOf(0 .. m) /\ T # {}
    BY <1>2, <2>2
  <2> QED
    BY <2>1, <2>3, WFMin
<1>4. PICK n \in S : n <= m /\ t = 0 .. n
  BY <1>3
<1>5. ASSUME NEW k \in S, ~(n <= k)
      PROVE  FALSE
  <2>0. k \in Nat /\ n \in Nat /\ m \in Nat
    OBVIOUS
  <2>1. k <= m
    BY <1>4, <1>5, <2>0
  <2>2. 0 .. k \in T
    BY <2>1
  <2>3. 0 .. k \subseteq 0 .. n /\ 0 .. k # 0 .. n
    <3>1. n \in 0 .. n /\ n \notin 0 .. k
      BY <2>0, <1>5
    <3> QED
      BY <2>0, <1>5, <3>1
  <2>4. 0 .. k \in SUBSET (0 .. m) /\ 0 .. n \in SUBSET (0 .. m)
    BY <1>4, <2>0, <2>1
  <2>5. <<0 .. k, t>> \in StrictSubsetOrdering(0 .. m)
    BY <2>3, <2>4, <1>4 DEF StrictSubsetOrdering
  <2> QED
    BY <2>2, <2>5, <1>3
<1> QED
  BY <1>5, <1>4

\* What holds of 0, and of n + 1 if it holds of n, holds of every number.
LEMMA NaturalsFollow ==
    ASSUME NEW S, 0 \in S, \A n \in Nat : n \in S => n + 1 \in S
    PROVE  \A n \in Nat : n \in S
<1> SUFFICES ASSUME NEW m \in Nat, m \notin S
             PROVE  FALSE
  OBVIOUS
<1> DEFINE T == {n \in Nat : n \notin S}
<1>1. T \subseteq Nat /\ m \in T
  OBVIOUS
<1> HIDE DEF T
<1>2. PICK least \in T : \A n \in T : least <= n
  BY <1>1, LeastNatural
<1> USE DEF T
<1>3. least \in Nat /\ least \notin S
  BY <1>2
<1>4. least # 0 /\ least - 1 \in Nat
  BY <1>3
<1>5. least - 1 \notin S
  BY <1>3, <1>4
<1> QED
  BY <1>2, <1>4, <1>5

\* A function that is defined by what it is at 0, and at n by what it is at
\* n - 1, exists; the values at n are in a set for n.
StepsWithin(N, D, S, base, step) ==
    /\ \A n \in 0 .. N : S[n] \subseteq D
    /\ base \in S[0]
    /\ \A n \in 1 .. N : \A x \in S[n - 1] : step[<<n, x>>] \in S[n]

AreSteps(N, D, S, base, step) ==
    \E f \in [0 .. N -> D] : /\ f[0] = base
                             /\ \A n \in 1 .. N : f[n] = step[<<n, f[n - 1]>>]
                             /\ \A n \in 0 .. N : f[n] \in S[n]

\* The function exists, and its values are in the sets.
LEMMA StepsDefine ==
    ASSUME NEW N \in Nat, NEW D, NEW S, NEW base, NEW step, StepsWithin(N, D, S, base, step)
    PROVE  AreSteps(N, D, S, base, step)
<1> USE DEF StepsWithin, AreSteps
<1> DEFINE steps(f, m) == /\ f[0] = base
                          /\ \A n \in 1 .. m : f[n] = step[<<n, f[n - 1]>>]
                          /\ \A n \in 0 .. m : f[n] \in S[n]
<1> DEFINE defined(m) == \E f \in [0 .. m -> D] : steps(f, m)
           T == {m \in Nat : m <= N => defined(m)}
<1>1. 0 \in T
  <2>1. PICK f : f = [n \in 0 .. 0 |-> base]
    OBVIOUS
  <2>2. base \in D
    BY 0 \in 0 .. N
  <2>3. f \in [0 .. 0 -> D] /\ f[0] = base
    BY <2>1, <2>2
  <2>4. steps(f, 0)
    BY <2>3
  <2> QED
    BY <2>3, <2>4
<1>2. ASSUME NEW m \in Nat, m \in T
      PROVE  m + 1 \in T
  <2> HIDE DEF defined
  <2>1. SUFFICES ASSUME m + 1 <= N PROVE defined(m + 1)
    OBVIOUS
  <2>11. defined(m)
    BY <1>2, <2>1
  <2> USE DEF defined
  <2>2. PICK f \in [0 .. m -> D] : steps(f, m)
    BY <2>11
  <2>3. PICK next : next = step[<<m + 1, f[m]>>]
    OBVIOUS
  <2>4. next \in S[m + 1] /\ next \in D
    <3>1. m + 1 \in 1 .. N /\ (m + 1) - 1 = m /\ f[m] \in S[m]
      BY <2>1, <2>2
    <3> QED
      BY <2>3, <3>1
  <2>5. PICK g : g = [n \in 0 .. m + 1 |-> IF n = m + 1 THEN next ELSE f[n]]
    OBVIOUS
  <2>6. /\ g \in [0 .. m + 1 -> D]
        /\ g[m + 1] = next
        /\ \A n \in 0 .. m : g[n] = f[n]
    BY <2>2, <2>4, <2>5
  <2>7. g[0] = base
    BY <2>2, <2>6
  <2>8. ASSUME NEW n \in 1 .. m + 1 PROVE g[n] = step[<<n, g[n - 1]>>]
    <3>1. CASE n = m + 1
      <4>0. n - 1 = m /\ m \in 0 .. m
        BY <3>1
      <4>1. n - 1 = m /\ g[m] = f[m]
        BY <2>6, <4>0
      <4> QED
        BY <2>3, <2>6, <3>1, <4>1
    <3>2. CASE n \in 1 .. m
      <4>1. n - 1 \in 0 .. m /\ n \in 0 .. m
        BY <3>2
      <4> QED
        BY <2>2, <2>6, <3>2, <4>1
    <3> QED
      BY <3>1, <3>2
  <2>9. ASSUME NEW n \in 0 .. m + 1 PROVE g[n] \in S[n]
    <3>1. n = m + 1 \/ n \in 0 .. m
      OBVIOUS
    <3> QED
      BY <2>2, <2>4, <2>6, <3>1
  <2>10. steps(g, m + 1)
    BY <2>6, <2>7, <2>8, <2>9
  <2> QED
    BY <2>6, <2>10
<1> HIDE DEF T
<1>3. \A m \in Nat : m \in T
  BY <1>1, <1>2, NaturalsFollow
<1> USE DEF T
<1>4. \E f \in [0 .. N -> D] : steps(f, N)
  BY <1>3
<1> QED
  BY <1>4

\* Whatever it is at, it stays in these sets.
LEMMA StepsStay ==
    ASSUME NEW N \in Nat, NEW S, NEW f, f[0] \in S[0],
           \A n \in 1 .. N : f[n - 1] \in S[n - 1] => f[n] \in S[n]
    PROVE  \A n \in 0 .. N : f[n] \in S[n]
<1> DEFINE T == {n \in Nat : n <= N => f[n] \in S[n]}
<1>1. 0 \in T
  OBVIOUS
<1>2. ASSUME NEW n \in Nat, n \in T PROVE n + 1 \in T
  <2>1. SUFFICES ASSUME n + 1 <= N PROVE f[n + 1] \in S[n + 1]
    OBVIOUS
  <2>2. n + 1 \in 1 .. N /\ (n + 1) - 1 = n
    BY <2>1
  <2>3. f[n] \in S[n]
    BY <1>2, <2>1
  <2> QED
    BY <2>2, <2>3
<1> HIDE DEF T
<1>3. \A n \in Nat : n \in T
  BY <1>1, <1>2, NaturalsFollow
<1> USE DEF T
<1> QED
  BY <1>3

\* What comes before each place, if all places are in an order.
IsAnOrder(before, N) ==
    /\ before \in [1 .. N -> SUBSET (1 .. N)]
    /\ \A n \in 1 .. N : n \notin before[n]
    /\ \A m, n \in 1 .. N : m # n => m \in before[n] \/ n \in before[m]
    /\ \A n \in 1 .. N : \A m \in before[n] : before[m] \subseteq before[n]

\* The numbers of what comes before are those source 0 on, each once.
LEMMA PlacesAreRanks ==
    ASSUME NEW N \in Nat, NEW before, IsAnOrder(before, N)
    PROVE  /\ \A n \in 1 .. N : Cardinality(before[n]) \in 0 .. N - 1
           /\ \A n \in 1 .. N : \A m \in before[n] : Cardinality(before[m]) < Cardinality(before[n])
           /\ \A p \in 1 .. N : \E n \in 1 .. N : Cardinality(before[n]) = p - 1
<1>1. IsFiniteSet(1 .. N) /\ Cardinality(1 .. N) = N
  BY FS_Interval, 1 \in Int, N \in Int
<1>2. ASSUME NEW n \in 1 .. N
      PROVE  /\ IsFiniteSet(before[n]) /\ Cardinality(before[n]) \in 0 .. N - 1
  <2>1. before[n] \subseteq 1 .. N /\ n \notin before[n]
    BY DEF IsAnOrder
  <2>2. IsFiniteSet(before[n])
    BY <1>1, <2>1, FS_Subset
  <2>3. Cardinality(before[n]) \in Nat
    BY <2>2, FS_CardinalityType
  <2>4. Cardinality(before[n] \union {n}) = Cardinality(before[n]) + 1
    BY <2>1, <2>2, FS_AddElement
  <2>5. before[n] \union {n} \subseteq 1 .. N
    BY <2>1
  <2>6. Cardinality(before[n] \union {n}) <= N
    BY <1>1, <2>5, FS_Subset
  <2> QED
    BY <2>2, <2>3, <2>4, <2>6
<1>3. ASSUME NEW n \in 1 .. N, NEW m \in before[n]
      PROVE  Cardinality(before[m]) < Cardinality(before[n])
  <2>1. m \in 1 .. N /\ before[m] \subseteq before[n] /\ m \notin before[m]
    BY DEF IsAnOrder
  <2>2. Cardinality(before[m]) \in Nat /\ Cardinality(before[n]) \in Nat /\ IsFiniteSet(before[n])
    BY <1>2, <2>1
  <2>3. /\ Cardinality(before[m]) <= Cardinality(before[n])
        /\ Cardinality(before[n]) = Cardinality(before[m]) => before[n] = before[m]
    BY <2>1, <2>2, FS_Subset
  <2>4. before[n] # before[m]
    BY <2>1
  <2> QED
    BY <2>2, <2>3, <2>4
<1> DEFINE rank == [n \in 1 .. N |-> Cardinality(before[n])]
<1>4. \A n \in 1 .. N : rank[n] = Cardinality(before[n])
  OBVIOUS
<1>5. rank \in [1 .. N -> 0 .. N - 1]
  BY <1>2
<1> HIDE DEF rank
<1>6. ASSUME NEW m \in 1 .. N, NEW n \in 1 .. N, rank[m] = rank[n] PROVE m = n
  <2>1. SUFFICES ASSUME m # n PROVE FALSE
    OBVIOUS
  <2>2. m \in before[n] \/ n \in before[m]
    BY <2>1 DEF IsAnOrder
  <2>3. Cardinality(before[m]) # Cardinality(before[n])
    BY <1>2, <1>3, <2>2
  <2> QED
    BY <1>4, <1>6, <2>3
<1>7. rank \in Injection(1 .. N, 0 .. N - 1)
  BY <1>5, <1>6 DEF Injection, IsInjective
<1>8. IsFiniteSet(0 .. N - 1) /\ Cardinality(0 .. N - 1) = N
  BY FS_Interval, 0 \in Int, N - 1 \in Int
<1>9. rank \in Surjection(1 .. N, 0 .. N - 1)
  BY <1>1, <1>7, <1>8, FS_Injection
<1>10. ASSUME NEW p \in 1 .. N PROVE \E n \in 1 .. N : Cardinality(before[n]) = p - 1
  <2>1. p - 1 \in 0 .. N - 1
    OBVIOUS
  <2>2. PICK n \in 1 .. N : rank[n] = p - 1
    BY <1>9, <2>1 DEF Surjection
  <2> QED
    BY <1>4, <2>2
<1> QED
  BY <1>2, <1>3, <1>10

(* Sequences of intervals *)

Elements(s) == {s[n] : n \in DOMAIN s}

\* What holds of sequences, in the form the proofs use.
LEMMA SequenceFacts ==
    ASSUME NEW M, NEW s \in Seq(M)
    PROVE  /\ Len(s) \in Nat /\ DOMAIN s = 1 .. Len(s)
           /\ \A n \in 1 .. Len(s) : s[n] \in M
           /\ Elements(s) \subseteq M
BY DEF Elements

LEMMA NoElements == Elements(<<>>) = {}
BY DEF Elements

LEMMA AppendFacts ==
    ASSUME NEW M, NEW s \in Seq(M), NEW v \in M
    PROVE  /\ Append(s, v) \in Seq(M) /\ Len(Append(s, v)) = Len(s) + 1
           /\ \A n \in 1 .. Len(s) : Append(s, v)[n] = s[n]
           /\ Append(s, v)[Len(s) + 1] = v
           /\ Elements(Append(s, v)) = Elements(s) \union {v}
<1>1. /\ Append(s, v) \in Seq(M) /\ Len(Append(s, v)) = Len(s) + 1
      /\ \A n \in 1 .. Len(s) : Append(s, v)[n] = s[n]
      /\ Append(s, v)[Len(s) + 1] = v
      /\ Len(s) \in Nat /\ DOMAIN s = 1 .. Len(s) /\ DOMAIN Append(s, v) = 1 .. Len(s) + 1
  OBVIOUS
<1>2. 1 .. Len(s) + 1 = (1 .. Len(s)) \union {Len(s) + 1}
  BY <1>1
<1>3. Elements(Append(s, v)) = Elements(s) \union {v}
  BY <1>1, <1>2 DEF Elements
<1> QED
  BY <1>1, <1>3

LEMMA ConcatFacts ==
    ASSUME NEW M, NEW s \in Seq(M), NEW r \in Seq(M)
    PROVE  /\ s \o r \in Seq(M) /\ Len(s \o r) = Len(s) + Len(r)
           /\ Elements(s \o r) = Elements(s) \union Elements(r)
<1>1. /\ s \o r \in Seq(M) /\ Len(s \o r) = Len(s) + Len(r)
      /\ Len(s) \in Nat /\ DOMAIN s = 1 .. Len(s) /\ Len(r) \in Nat /\ DOMAIN r = 1 .. Len(r)
      /\ DOMAIN (s \o r) = 1 .. Len(s) + Len(r)
  OBVIOUS
<1>2. /\ \A n \in 1 .. Len(s) : (s \o r)[n] = s[n]
      /\ \A n \in 1 .. Len(r) : (s \o r)[Len(s) + n] = r[n]
  OBVIOUS
<1>3. PICK both : both = s \o r
  OBVIOUS
<1> DEFINE L == Len(s)
           R == Len(r)
<1>4. /\ L \in Nat /\ R \in Nat /\ DOMAIN s = 1 .. L /\ DOMAIN r = 1 .. R /\ DOMAIN both = 1 .. L + R
      /\ \A n \in 1 .. L : both[n] = s[n]
      /\ \A n \in 1 .. R : both[L + n] = r[n]
  BY <1>1, <1>2, <1>3
<1> HIDE DEF L, R
<1>5. ASSUME NEW n \in 1 .. L + R PROVE both[n] \in Elements(s) \union Elements(r)
  <2>1. CASE n \in 1 .. L
    BY <1>4, <2>1 DEF Elements
  <2>2. CASE n \notin 1 .. L
    <3>1. n - L \in 1 .. R /\ L + (n - L) = n
      BY <1>4, <2>2
    <3> QED
      BY <1>4, <3>1 DEF Elements
  <2> QED
    BY <2>1, <2>2
<1>6. \A n \in 1 .. L : n \in 1 .. L + R
  BY <1>4
<1>7. \A n \in 1 .. R : L + n \in 1 .. L + R
  BY <1>4
<1>8. Elements(both) = Elements(s) \union Elements(r)
  <2>1. Elements(both) \subseteq Elements(s) \union Elements(r)
    BY <1>4, <1>5 DEF Elements
  <2>2. \A n \in 1 .. L : s[n] \in Elements(both)
    BY <1>4, <1>6 DEF Elements
  <2>3. \A n \in 1 .. R : r[n] \in Elements(both)
    BY <1>4, <1>7 DEF Elements
  <2>4. Elements(s) = {s[n] : n \in 1 .. L} /\ Elements(r) = {r[n] : n \in 1 .. R}
    BY <1>4 DEF Elements
  <2> QED
    BY <2>1, <2>2, <2>3, <2>4
<1> QED
  BY <1>1, <1>3, <1>8

\* Those hands out the values at the places.
LEMMA ThoseFacts ==
    ASSUME NEW M, NEW values \in Seq(M), NEW places
    PROVE  /\ Those(values, places) \in Seq(M)
           /\ Elements(Those(values, places)) = {values[n] : n \in (1 .. Len(values)) \cap places}
<1>0. PICK N \in Nat : N = Len(values)
  OBVIOUS
<1> DEFINE S == [n \in 0 .. N |-> {x \in Seq(M) : Elements(x) = {values[k] : k \in (1 .. n) \cap places}}]
           step == [c \in (1 .. N) \X Seq(M) |-> IF c[1] \in places THEN Append(c[2], values[c[1]]) ELSE c[2]]
           equation(f) == f = [n \in 0 .. N |-> IF n = 0 THEN <<>> ELSE IF n \in places THEN Append(f[n - 1], values[n]) ELSE f[n - 1]]
<1>1. \A n \in 0 .. N : \A x : x \in S[n] <=> x \in Seq(M) /\ Elements(x) = {values[k] : k \in (1 .. n) \cap places}
  OBVIOUS
<1>2. ASSUME NEW n \in 1 .. N, NEW x \in Seq(M)
      PROVE  step[<<n, x>>] = IF n \in places THEN Append(x, values[n]) ELSE x
  OBVIOUS
<1> HIDE DEF S, step
<1>3. ASSUME NEW n \in 1 .. N, NEW x \in Seq(M), x \in S[n - 1]
      PROVE  (IF n \in places THEN Append(x, values[n]) ELSE x) \in S[n]
  <2>1. n - 1 \in 0 .. N /\ n \in 0 .. N /\ values[n] \in M /\ 1 .. n = (1 .. n - 1) \union {n}
    BY <1>0
  <2>2. Elements(x) = {values[k] : k \in (1 .. n - 1) \cap places}
    BY <1>1, <1>3, <2>1
  <2>3. CASE n \in places
    <3>1. Append(x, values[n]) \in Seq(M) /\ Elements(Append(x, values[n])) = Elements(x) \union {values[n]}
      BY <2>1, AppendFacts
    <3>2. Elements(Append(x, values[n])) = {values[k] : k \in (1 .. n) \cap places}
      BY <2>1, <2>2, <2>3, <3>1
    <3> QED
      BY <1>1, <2>1, <2>3, <3>1, <3>2
  <2>4. CASE n \notin places
    <3>1. (1 .. n) \cap places = (1 .. n - 1) \cap places
      BY <2>1, <2>4
    <3> QED
      BY <1>1, <2>1, <2>2, <2>4, <3>1
  <2> QED
    BY <2>3, <2>4
<1>4. <<>> \in S[0]
  <2>1. Elements(<<>>) = {} /\ 0 \in 0 .. N /\ <<>> \in Seq(M) /\ 1 .. 0 = {}
    BY NoElements
  <2> QED
    BY <1>1, <2>1
<1>5. StepsWithin(N, Seq(M), S, <<>>, step)
  <2>1. \A n \in 0 .. N : S[n] \subseteq Seq(M)
    BY <1>1
  <2>2. ASSUME NEW n \in 1 .. N, NEW x \in S[n - 1] PROVE step[<<n, x>>] \in S[n]
    <3>1. n - 1 \in 0 .. N
      BY <1>0
    <3>2. x \in Seq(M)
      BY <2>1, <3>1
    <3>3. step[<<n, x>>] = IF n \in places THEN Append(x, values[n]) ELSE x
      BY ONLY <1>2, <3>2
    <3>4. (IF n \in places THEN Append(x, values[n]) ELSE x) \in S[n]
      BY ONLY <1>3, <2>2, <3>2
    <3> QED
      BY ONLY <3>3, <3>4
  <2> QED
    BY <1>4, <2>1, <2>2 DEF StepsWithin
<1>6. PICK f \in [0 .. N -> Seq(M)] :
          /\ f[0] = <<>>
          /\ \A n \in 1 .. N : f[n] = step[<<n, f[n - 1]>>]
          /\ \A n \in 0 .. N : f[n] \in S[n]
  <2>1. N \in Nat
    OBVIOUS
  <2>2. PICK D, base : D = Seq(M) /\ base = <<>>
    OBVIOUS
  <2>3. StepsWithin(N, D, S, base, step)
    BY ONLY <1>5, <2>2
  <2>4. AreSteps(N, D, S, base, step)
    BY ONLY <2>1, <2>3, StepsDefine
  <2>5. \E f \in [0 .. N -> D] :
          /\ f[0] = base
          /\ \A n \in 1 .. N : f[n] = step[<<n, f[n - 1]>>]
          /\ \A n \in 0 .. N : f[n] \in S[n]
    BY ONLY <2>4 DEF AreSteps
  <2> QED
    BY ONLY <2>2, <2>5
<1>7. ASSUME NEW n \in 0 .. N
      PROVE  f[n] = IF n = 0 THEN <<>> ELSE IF n \in places THEN Append(f[n - 1], values[n]) ELSE f[n - 1]
  <2>1. CASE n = 0
    BY <1>6, <2>1
  <2>2. CASE n \in 1 .. N
    <3>1. n - 1 \in 0 .. N
      BY <2>2
    <3> QED
      BY <1>2, <1>6, <2>2, <3>1
  <2>3. n = 0 \/ n \in 1 .. N
    OBVIOUS
  <2> QED
    BY ONLY <2>1, <2>2, <2>3
<1>8. equation(f)
  BY <1>6, <1>7
<1>9. PICK g : g = CHOOSE h : equation(h)
  OBVIOUS
<1>10. equation(g)
  BY <1>8, <1>9
<1>11. Those(values, places) = g[N]
  BY <1>0, <1>9 DEF Those
<1>12. g[0] = <<>> /\ \A n \in 1 .. N : g[n] = IF n \in places THEN Append(g[n - 1], values[n]) ELSE g[n - 1]
  <2>1. \A n \in 0 .. N : g[n] = IF n = 0 THEN <<>> ELSE IF n \in places THEN Append(g[n - 1], values[n]) ELSE g[n - 1]
    BY <1>10
  <2>2. ASSUME NEW n \in 1 .. N PROVE g[n] = IF n \in places THEN Append(g[n - 1], values[n]) ELSE g[n - 1]
    <3>1. n \in 0 .. N /\ n # 0
      OBVIOUS
    <3> QED
      BY ONLY <2>1, <3>1
  <2>3. g[0] = <<>>
    BY ONLY <2>1, 0 \in 0 .. N, <1>0
  <2> QED
    BY ONLY <2>2, <2>3
<1>13. \A n \in 0 .. N : g[n] \in S[n]
  <2>1. ASSUME NEW n \in 1 .. N, g[n - 1] \in S[n - 1] PROVE g[n] \in S[n]
    <3>1. n - 1 \in 0 .. N
      BY <1>0
    <3>2. g[n - 1] \in Seq(M)
      BY <1>1, <2>1, <3>1
    <3> QED
      BY <1>3, <1>12, <2>1, <3>2
  <2> QED
    BY <1>4, <1>12, <2>1, StepsStay
<1>14. g[N] \in S[N] /\ N \in 0 .. N
  <2>1. N \in 0 .. N
    BY <1>0
  <2> QED
    BY <1>13, <2>1
<1> QED
  BY <1>0, <1>1, <1>11, <1>14

\* Flat hands out what is in the rows.
LEMMA FlatFacts ==
    ASSUME NEW M, NEW rows \in Seq(Seq(M))
    PROVE  /\ Flat(rows) \in Seq(M)
           /\ Elements(Flat(rows)) = UNION {Elements(rows[i]) : i \in 1 .. Len(rows)}
<1>0. PICK N \in Nat : N = Len(rows)
  OBVIOUS
<1> DEFINE S == [n \in 0 .. N |-> {x \in Seq(M) : Elements(x) = UNION {Elements(rows[k]) : k \in 1 .. n}}]
           step == [c \in (1 .. N) \X Seq(M) |-> c[2] \o rows[c[1]]]
           equation(f) == f = [n \in 0 .. N |-> IF n = 0 THEN <<>> ELSE f[n - 1] \o rows[n]]
<1>1. \A n \in 0 .. N : \A x : x \in S[n] <=> x \in Seq(M) /\ Elements(x) = UNION {Elements(rows[k]) : k \in 1 .. n}
  OBVIOUS
<1>2. ASSUME NEW n \in 1 .. N, NEW x \in Seq(M)
      PROVE  step[<<n, x>>] = x \o rows[n]
  OBVIOUS
<1> HIDE DEF S, step
<1>3. ASSUME NEW n \in 1 .. N, NEW x \in Seq(M), x \in S[n - 1]
      PROVE  (x \o rows[n]) \in S[n]
  <2>1. n - 1 \in 0 .. N /\ n \in 0 .. N /\ rows[n] \in Seq(M) /\ 1 .. n = (1 .. n - 1) \union {n}
    BY <1>0
  <2>2. Elements(x) = UNION {Elements(rows[k]) : k \in 1 .. n - 1}
    BY <1>1, <1>3, <2>1
  <2>3. x \o rows[n] \in Seq(M) /\ Elements(x \o rows[n]) = Elements(x) \union Elements(rows[n])
    BY <2>1, ConcatFacts
  <2>4. Elements(x \o rows[n]) = UNION {Elements(rows[k]) : k \in 1 .. n}
    BY <2>1, <2>2, <2>3
  <2> QED
    BY <1>1, <2>1, <2>3, <2>4
<1>4. <<>> \in S[0]
  <2>1. Elements(<<>>) = {} /\ 0 \in 0 .. N /\ <<>> \in Seq(M) /\ 1 .. 0 = {} /\ UNION {Elements(rows[k]) : k \in 1 .. 0} = {}
    BY NoElements
  <2> QED
    BY <1>1, <2>1
<1>5. StepsWithin(N, Seq(M), S, <<>>, step)
  <2>1. \A n \in 0 .. N : S[n] \subseteq Seq(M)
    BY <1>1
  <2>2. ASSUME NEW n \in 1 .. N, NEW x \in S[n - 1] PROVE step[<<n, x>>] \in S[n]
    <3>1. n - 1 \in 0 .. N
      BY <1>0
    <3>2. x \in Seq(M)
      BY <2>1, <3>1
    <3>3. step[<<n, x>>] = x \o rows[n]
      BY ONLY <1>2, <3>2
    <3>4. (x \o rows[n]) \in S[n]
      BY ONLY <1>3, <2>2, <3>2
    <3> QED
      BY ONLY <3>3, <3>4
  <2> QED
    BY <1>4, <2>1, <2>2 DEF StepsWithin
<1>6. PICK f \in [0 .. N -> Seq(M)] :
          /\ f[0] = <<>>
          /\ \A n \in 1 .. N : f[n] = step[<<n, f[n - 1]>>]
          /\ \A n \in 0 .. N : f[n] \in S[n]
  <2>1. N \in Nat
    OBVIOUS
  <2>2. PICK D, base : D = Seq(M) /\ base = <<>>
    OBVIOUS
  <2>3. StepsWithin(N, D, S, base, step)
    BY ONLY <1>5, <2>2
  <2>4. AreSteps(N, D, S, base, step)
    BY ONLY <2>1, <2>3, StepsDefine
  <2>5. \E f \in [0 .. N -> D] :
          /\ f[0] = base
          /\ \A n \in 1 .. N : f[n] = step[<<n, f[n - 1]>>]
          /\ \A n \in 0 .. N : f[n] \in S[n]
    BY ONLY <2>4 DEF AreSteps
  <2> QED
    BY ONLY <2>2, <2>5
<1>7. ASSUME NEW n \in 0 .. N
      PROVE  f[n] = IF n = 0 THEN <<>> ELSE f[n - 1] \o rows[n]
  <2>1. CASE n = 0
    BY <1>6, <2>1
  <2>2. CASE n \in 1 .. N
    <3>1. n - 1 \in 0 .. N
      BY <2>2
    <3> QED
      BY <1>2, <1>6, <2>2, <3>1
  <2>3. n = 0 \/ n \in 1 .. N
    OBVIOUS
  <2> QED
    BY ONLY <2>1, <2>2, <2>3
<1>8. equation(f)
  BY <1>6, <1>7
<1>9. PICK g : g = CHOOSE h : equation(h)
  OBVIOUS
<1>10. equation(g)
  BY <1>8, <1>9
<1>11. Flat(rows) = g[N]
  BY <1>0, <1>9 DEF Flat
<1>12. g[0] = <<>> /\ \A n \in 1 .. N : g[n] = g[n - 1] \o rows[n]
  <2>1. \A n \in 0 .. N : g[n] = IF n = 0 THEN <<>> ELSE g[n - 1] \o rows[n]
    BY <1>10
  <2>2. ASSUME NEW n \in 1 .. N PROVE g[n] = g[n - 1] \o rows[n]
    <3>1. n \in 0 .. N /\ n # 0
      OBVIOUS
    <3> QED
      BY ONLY <2>1, <3>1
  <2>3. g[0] = <<>>
    BY ONLY <2>1, 0 \in 0 .. N, <1>0
  <2> QED
    BY ONLY <2>2, <2>3
<1>13. \A n \in 0 .. N : g[n] \in S[n]
  <2>1. ASSUME NEW n \in 1 .. N, g[n - 1] \in S[n - 1] PROVE g[n] \in S[n]
    <3>1. n - 1 \in 0 .. N
      BY <1>0
    <3>2. g[n - 1] \in Seq(M)
      BY <1>1, <2>1, <3>1
    <3> QED
      BY <1>3, <1>12, <2>1, <3>2
  <2> QED
    BY <1>4, <1>12, <2>1, StepsStay
<1>14. g[N] \in S[N] /\ N \in 0 .. N
  <2>1. N \in 0 .. N
    BY <1>0
  <2> QED
    BY <1>13, <2>1
<1> QED
  BY <1>0, <1>1, <1>11, <1>14

HasTimes(M) == \A v \in M : v.start \in Int /\ v.end \in Int

\* What a stable sort puts before each of the intervals.
Preceding(values, n) ==
    {m \in 1 .. Len(values) : \/ values[m].start < values[n].start
                              \/ m < n /\ values[m].start = values[n].start}

LEMMA PrecedingIsAnOrder ==
    ASSUME NEW M, HasTimes(M), NEW values \in Seq(M)
    PROVE  IsAnOrder([n \in 1 .. Len(values) |-> Preceding(values, n)], Len(values))
<1>1. PICK N \in Nat : N = Len(values) /\ \A n \in 1 .. N : values[n] \in M
  BY SequenceFacts
<1>2. PICK start : start = [n \in 1 .. N |-> values[n].start]
  OBVIOUS
<1>3. \A n \in 1 .. N : start[n] \in Int /\ start[n] = values[n].start
  BY <1>1, <1>2 DEF HasTimes
<1>4. PICK before : before = [n \in 1 .. N |-> Preceding(values, n)]
  OBVIOUS
<1>5. \A n \in 1 .. N : before[n] = {m \in 1 .. N : start[m] < start[n] \/ (m < n /\ start[m] = start[n])}
  BY <1>1, <1>3, <1>4 DEF Preceding
<1>6. before \in [1 .. N -> SUBSET (1 .. N)]
  BY <1>4, <1>5
<1>7. \A n \in 1 .. N : n \notin before[n]
  BY <1>3, <1>5
<1>8. \A m, n \in 1 .. N : m # n => m \in before[n] \/ n \in before[m]
  BY <1>3, <1>5
<1>9. ASSUME NEW n \in 1 .. N, NEW m \in before[n], NEW l \in before[m] PROVE l \in before[n]
  <2>1. m \in 1 .. N /\ (start[m] < start[n] \/ (m < n /\ start[m] = start[n]))
    BY <1>5
  <2>2. l \in 1 .. N /\ (start[l] < start[m] \/ (l < m /\ start[l] = start[m]))
    BY <1>5, <2>1
  <2>3. start[l] < start[n] \/ (l < n /\ start[l] = start[n])
    BY <1>3, <2>1, <2>2
  <2> QED
    BY <1>5, <2>2, <2>3
<1> QED
  BY <1>1, <1>4, <1>6, <1>7, <1>8, <1>9 DEF IsAnOrder

\* ByStart hands out the same intervals, none before one that starts earlier.
LEMMA ByStartFacts ==
    ASSUME NEW M, HasTimes(M), NEW values \in Seq(M)
    PROVE  /\ ByStart(values) \in Seq(M)
           /\ Elements(ByStart(values)) = Elements(values)
           /\ \A p, q \in 1 .. Len(ByStart(values)) :
                  p < q => ByStart(values)[p].start <= ByStart(values)[q].start
<1>1. PICK N \in Nat : N = Len(values) /\ DOMAIN values = 1 .. N /\ \A n \in 1 .. N : values[n] \in M
  BY SequenceFacts
<1>2. PICK before : before = [n \in 1 .. N |-> Preceding(values, n)]
  OBVIOUS
<1>3. IsAnOrder(before, N)
  BY <1>1, <1>2, PrecedingIsAnOrder
<1>4. /\ \A n \in 1 .. N : Cardinality(before[n]) \in 0 .. N - 1
      /\ \A n \in 1 .. N : \A m \in before[n] : Cardinality(before[m]) < Cardinality(before[n])
      /\ \A p \in 1 .. N : \E n \in 1 .. N : Cardinality(before[n]) = p - 1
  BY <1>3, PlacesAreRanks
<1>5. PICK source : source = [p \in 1 .. N |-> CHOOSE n \in 1 .. N : Cardinality(before[n]) = p - 1]
  OBVIOUS
<1>6. \A p \in 1 .. N : source[p] \in 1 .. N /\ Cardinality(before[source[p]]) = p - 1
  BY <1>4, <1>5
<1>7. PICK sorted : sorted = ByStart(values)
  OBVIOUS
<1>8. sorted = [p \in 1 .. N |-> values[source[p]]]
  <2>1. \A n \in 1 .. N : before[n] = {m \in 1 .. N : \/ values[m].start < values[n].start
                                                      \/ m < n /\ values[m].start = values[n].start}
    BY <1>1, <1>2 DEF Preceding
  <2>2. sorted = [place \in 1 .. N |-> values[CHOOSE n \in 1 .. N :
                     Cardinality({m \in 1 .. N : \/ values[m].start < values[n].start
                                                 \/ m < n /\ values[m].start = values[n].start}) = place - 1]]
    BY <1>1, <1>7 DEF ByStart
  <2>3. ASSUME NEW p \in 1 .. N
        PROVE  (CHOOSE n \in 1 .. N : Cardinality(before[n]) = p - 1) =
               (CHOOSE n \in 1 .. N :
                     Cardinality({m \in 1 .. N : \/ values[m].start < values[n].start
                                                 \/ m < n /\ values[m].start = values[n].start}) = p - 1)
    <3>1. \A n \in 1 .. N : Cardinality(before[n]) = p - 1 <=>
                     Cardinality({m \in 1 .. N : \/ values[m].start < values[n].start
                                                 \/ m < n /\ values[m].start = values[n].start}) = p - 1
      BY <2>1
    <3> QED
      BY <3>1
  <2>4. ASSUME NEW p \in 1 .. N PROVE sorted[p] = values[source[p]]
    <3>1. sorted[p] = values[CHOOSE n \in 1 .. N : Cardinality(before[n]) = p - 1]
      BY <2>2, <2>3
    <3> QED
      BY <1>5, <3>1
  <2> QED
    BY <2>2, <2>4
<1>9. sorted \in Seq(M) /\ Len(sorted) = N /\ DOMAIN sorted = 1 .. N /\ \A p \in 1 .. N : sorted[p] = values[source[p]]
  BY <1>1, <1>6, <1>8
<1>10. ASSUME NEW n \in 1 .. N PROVE \E p \in 1 .. N : source[p] = n
  <2>1. PICK p \in 1 .. N : p = Cardinality(before[n]) + 1
    BY <1>4
  <2>2. Cardinality(before[source[p]]) = Cardinality(before[n]) /\ source[p] \in 1 .. N
    <3>1. PICK k \in Int : k = Cardinality(before[n])
      BY <1>4
    <3>2. source[p] \in 1 .. N /\ Cardinality(before[source[p]]) = p - 1
      BY ONLY <1>6, p \in 1 .. N
    <3>3. p - 1 = k
      BY ONLY <2>1, <3>1
    <3> QED
      BY ONLY <3>1, <3>2, <3>3
  <2>3. SUFFICES ASSUME source[p] # n PROVE FALSE
    OBVIOUS
  <2>4. source[p] \in before[n] \/ n \in before[source[p]]
    BY <1>3, <2>2, <2>3 DEF IsAnOrder
  <2> QED
    BY <1>4, <2>2, <2>4
<1>11. Elements(sorted) = Elements(values)
  <2>1. Elements(sorted) = {sorted[p] : p \in 1 .. N} /\ Elements(values) = {values[n] : n \in 1 .. N}
    BY <1>1, <1>9 DEF Elements
  <2>2. \A p \in 1 .. N : sorted[p] \in {values[n] : n \in 1 .. N}
    BY <1>6, <1>9
  <2>3. ASSUME NEW n \in 1 .. N PROVE values[n] \in {sorted[p] : p \in 1 .. N}
    BY <1>9, <1>10
  <2> QED
    BY <2>1, <2>2, <2>3
<1>12. ASSUME NEW p \in 1 .. N, NEW q \in 1 .. N, p < q PROVE sorted[p].start <= sorted[q].start
  <2>1. values[source[p]].start \in Int /\ values[source[q]].start \in Int
    BY <1>1, <1>6 DEF HasTimes
  <2>2. SUFFICES ASSUME values[source[q]].start < values[source[p]].start PROVE FALSE
    BY <1>9, <2>1
  <2>3. source[q] \in before[source[p]]
    BY <1>1, <1>2, <1>6, <2>2 DEF Preceding
  <2>4. Cardinality(before[source[q]]) < Cardinality(before[source[p]])
    BY <1>4, <1>6, <2>3
  <2> QED
    BY <1>6, <1>12, <2>4
<1> QED
  BY <1>7, <1>9, <1>11, <1>12

(* Coverage *)

Spans == [start : Int, end : Int]
Statuses == {"free", "tentative", "busy", "noData"}
Labelled == [start : Int, end : Int, status : Statuses]

At(v, t) == v.start <= t /\ t < v.end
Covers(s, t) == \E v \in Elements(s) : At(v, t)
Shows(s, t, status) == \E v \in Elements(s) : At(v, t) /\ v.status = status

LEMMA TimesOfSpans == HasTimes(Spans) /\ HasTimes(Labelled)
BY DEF HasTimes, Spans, Labelled

\* One turn of a merging loop: the last interval is extended to the end of the
\* next one if that begins in it; those before it stay.
LEMMA ExtendFacts ==
    ASSUME NEW M, M = Spans \/ M = Labelled, NEW out \in Seq(M), out # <<>>, NEW v \in M
    PROVE  /\ Extend(out, v) \in Seq(M) /\ Len(Extend(out, v)) = Len(out) /\ Len(out) \in Nat \ {0}
           /\ \A n \in 1 .. Len(out) - 1 : Extend(out, v)[n] = out[n]
           /\ Extend(out, v)[Len(out)].start = out[Len(out)].start
           /\ Extend(out, v)[Len(out)].end = Later(out[Len(out)].end, v.end)
<1>1. PICK L \in Nat \ {0} : L = Len(out) /\ DOMAIN out = 1 .. L /\ \A n \in 1 .. L : out[n] \in M
  BY SequenceFacts, EmptySeq
<1>2. PICK last, end : last = out[L] /\ end = Later(out[L].end, v.end)
  OBVIOUS
<1>3. last \in M /\ end \in Int
  <2>1. last \in M /\ last.end \in Int /\ v.end \in Int
    BY <1>1, <1>2, TimesOfSpans DEF HasTimes
  <2> QED
    BY <1>2, <2>1 DEF Later
<1>4. PICK new : new = [last EXCEPT !.end = end]
  OBVIOUS
<1>5. new \in M /\ new.start = last.start /\ new.end = end
  <2>1. CASE M = Spans
    BY <1>3, <1>4, <2>1 DEF Spans
  <2>2. CASE M = Labelled
    BY <1>3, <1>4, <2>2 DEF Labelled
  <2> QED
    BY <2>1, <2>2
<1>6. Extend(out, v) = [out EXCEPT ![L] = new]
  BY <1>1, <1>2, <1>4 DEF Extend
<1>7. [out EXCEPT ![L] = new] \in Seq(M) /\ Len([out EXCEPT ![L] = new]) = L
  BY <1>1, <1>5
<1>8. [out EXCEPT ![L] = new][L] = new /\ \A n \in 1 .. L - 1 : [out EXCEPT ![L] = new][n] = out[n]
  BY <1>1
<1> QED
  BY <1>1, <1>2, <1>4, <1>5, <1>6, <1>7, <1>8

\* An interval that begins no earlier than those so far joins the last one or
\* follows it: the intervals stay apart and cover what both cover.
LEMMA MergedKeepsApart ==
    ASSUME NEW out \in Seq(Spans), AreMerged(out), NEW v \in Spans, v.start < v.end,
           \A n \in 1 .. Len(out) : out[n].start <= v.start
    PROVE  /\ Merged(out, v) \in Seq(Spans) /\ AreMerged(Merged(out, v))
           /\ \A n \in 1 .. Len(Merged(out, v)) :
                  \/ Merged(out, v)[n].start = v.start
                  \/ \E m \in 1 .. Len(out) : Merged(out, v)[n].start = out[m].start
           /\ \A t \in Int : Covers(Merged(out, v), t) <=> Covers(out, t) \/ At(v, t)
<1>1. PICK L \in Nat : L = Len(out) /\ DOMAIN out = 1 .. L /\ \A n \in 1 .. L : out[n] \in Spans
  BY SequenceFacts
<1>2. \A w \in Spans : w.start \in Int /\ w.end \in Int
  BY DEF Spans
<1>3. /\ \A n \in 1 .. L : out[n].start < out[n].end /\ out[n].start \in Int /\ out[n].end \in Int
      /\ \A m, n \in 1 .. L : m < n => out[m].end < out[n].start
  BY <1>1, <1>2 DEF AreMerged
<1>4. CASE out # <<>> /\ v.start <= LastOf(out).end
  <2>1. PICK new : new = Extend(out, v)
    OBVIOUS
  <2>2. Merged(out, v) = new /\ L # 0 /\ v.start <= out[L].end
    BY <1>1, <1>4, <2>1 DEF Merged, LastOf
  <2>3. PICK end : end = Later(out[L].end, v.end)
    OBVIOUS
  <2>4. /\ new \in Seq(Spans) /\ Len(new) = L /\ DOMAIN new = 1 .. L
        /\ \A n \in 1 .. L - 1 : new[n] = out[n]
        /\ new[L].start = out[L].start /\ new[L].end = end
    <3>1. /\ Extend(out, v) \in Seq(Spans) /\ Len(Extend(out, v)) = Len(out)
          /\ \A n \in 1 .. Len(out) - 1 : Extend(out, v)[n] = out[n]
          /\ Extend(out, v)[Len(out)].start = out[Len(out)].start
          /\ Extend(out, v)[Len(out)].end = Later(out[Len(out)].end, v.end)
      BY <1>4, ExtendFacts
    <3>2. DOMAIN new = 1 .. L
      BY <1>1, <2>1, <3>1, SequenceFacts
    <3> QED
      BY <1>1, <2>1, <2>3, <3>1, <3>2
  <2>5. end \in Int /\ end >= out[L].end /\ end >= v.end /\ (end = out[L].end \/ end = v.end)
    BY <1>2, <1>3, <2>2, <2>3 DEF Later
  <2>6. \A n \in 1 .. L : new[n].start = out[n].start /\ new[n].end >= out[n].end /\ new[n].end \in Int
    BY <1>3, <2>4, <2>5
  <2>7. \A n \in 1 .. L : new[n].start < new[n].end
    BY <1>3, <2>6
  <2>8. ASSUME NEW m \in 1 .. L, NEW n \in 1 .. L, m < n PROVE new[m].end < new[n].start
    <3>1. m \in 1 .. L - 1
      BY <2>8
    <3> QED
      BY <1>3, <2>4, <2>6, <2>8, <3>1
  <2>9. AreMerged(new)
    BY <2>4, <2>7, <2>8 DEF AreMerged, Spans
  <2>10. ASSUME NEW t \in Int PROVE Covers(new, t) <=> Covers(out, t) \/ At(v, t)
    <3>0. /\ Covers(new, t) <=> \E n \in 1 .. L : At(new[n], t)
          /\ Covers(out, t) <=> \E n \in 1 .. L : At(out[n], t)
      BY <1>1, <2>4 DEF Covers, Elements
    <3>1. ASSUME NEW n \in 1 .. L, At(out[n], t) PROVE At(new[n], t)
      BY <1>3, <2>6, <3>1 DEF At
    <3>2. ASSUME At(v, t) PROVE At(new[L], t)
      <4>1. out[L].start <= v.start /\ L \in 1 .. L
        BY <1>1, <2>2
      <4> QED
        BY <1>2, <1>3, <2>4, <2>5, <3>2, <4>1 DEF At
    <3>3. ASSUME NEW n \in 1 .. L, At(new[n], t) PROVE At(out[n], t) \/ At(v, t)
      <4>1. CASE n \in 1 .. L - 1
        BY <2>4, <3>3, <4>1
      <4>2. CASE n = L
        BY <1>2, <1>3, <2>2, <2>4, <2>5, <3>3, <4>2 DEF At
      <4> QED
        BY <4>1, <4>2
    <3> QED
      BY <2>2, <3>0, <3>1, <3>2, <3>3
  <2> QED
    BY <1>1, <2>2, <2>4, <2>6, <2>9, <2>10
<1>5. CASE ~(out # <<>> /\ v.start <= LastOf(out).end)
  <2>1. PICK new : new = Append(out, v)
    OBVIOUS
  <2>2. Merged(out, v) = new
    BY <1>5, <2>1 DEF Merged
  <2>3. /\ new \in Seq(Spans) /\ Len(new) = L + 1 /\ DOMAIN new = 1 .. L + 1
        /\ \A n \in 1 .. L : new[n] = out[n]
        /\ new[L + 1] = v /\ Elements(new) = Elements(out) \union {v}
    BY <1>1, <2>1, AppendFacts, SequenceFacts
  <2>4. ASSUME NEW n \in 1 .. L PROVE out[n].end < v.start
    <3>1. out # <<>> /\ L \in 1 .. L
      BY <1>1, <2>4
    <3>2. out[L].end < v.start
      BY <1>1, <1>2, <1>3, <1>5, <3>1 DEF LastOf
    <3>3. CASE n = L
      BY <3>2, <3>3
    <3>4. CASE n < L
      <4>1. PICK a \in Int, b \in Int, c \in Int, d \in Int :
                a = out[n].end /\ b = out[L].start /\ c = out[L].end /\ d = v.start
        BY <1>2, <1>3, <3>1
      <4>2. a < b /\ b < c /\ c < d
        BY <1>3, <3>1, <3>2, <3>4, <4>1
      <4> QED
        BY ONLY <4>1, <4>2
    <3> QED
      BY <2>4, <3>3, <3>4
  <2>5. \A n \in 1 .. L + 1 : n \in 1 .. L \/ n = L + 1
    OBVIOUS
  <2>6. \A n \in 1 .. L + 1 : new[n].start < new[n].end
    BY <1>3, <2>3, <2>5
  <2>7. ASSUME NEW m \in 1 .. L + 1, NEW n \in 1 .. L + 1, m < n PROVE new[m].end < new[n].start
    <3>1. m \in 1 .. L
      BY <2>7
    <3> QED
      BY <1>3, <2>3, <2>4, <2>5, <2>7, <3>1
  <2>8. AreMerged(new)
    BY <2>3, <2>6, <2>7 DEF AreMerged, Spans
  <2>9. \A t : Covers(new, t) <=> Covers(out, t) \/ At(v, t)
    BY <2>3 DEF Covers
  <2>10. \A n \in 1 .. L + 1 : new[n].start = v.start \/ \E m \in 1 .. L : new[n].start = out[m].start
    BY <2>3, <2>5
  <2> QED
    BY <1>1, <2>2, <2>3, <2>8, <2>9, <2>10
<1> QED
  BY <1>4, <1>5

\* What is left out is empty.
LEMMA RealFacts ==
    ASSUME NEW M, NEW values \in Seq(M)
    PROVE  /\ Real(values) \in Seq(M)
           /\ Elements(Real(values)) = {v \in Elements(values) : v.start < v.end}
<1>1. PICK places : places = {n \in DOMAIN values : values[n].start < values[n].end}
  OBVIOUS
<1>2. Real(values) = Those(values, places)
  BY <1>1 DEF Real
<1>3. DOMAIN values = 1 .. Len(values)
  BY SequenceFacts
<1>4. Those(values, places) \in Seq(M)
      /\ Elements(Those(values, places)) = {values[n] : n \in (1 .. Len(values)) \cap places}
  BY ThoseFacts
<1>5. {values[n] : n \in (1 .. Len(values)) \cap places} = {v \in Elements(values) : v.start < v.end}
  BY <1>1, <1>3 DEF Elements
<1> QED
  BY <1>2, <1>4, <1>5

\* Sorted intervals that are merged cover what they covered.
InOrder(values) ==
    \A m, n \in 1 .. Len(values) : m < n => values[m].start <= values[n].start

LEMMA AppendedAreMore ==
    ASSUME NEW values, NEW n \in Nat \ {0}, NEW t
    PROVE  (\E k \in 1 .. n : At(values[k], t)) <=> (\E k \in 1 .. n - 1 : At(values[k], t)) \/ At(values[n], t)
<1>1. 1 .. n = (1 .. n - 1) \union {n}
  OBVIOUS
<1> QED
  BY <1>1

Follows(out, values, n) ==
    /\ AreMerged(out)
    /\ \A i \in 1 .. Len(out) : \E k \in 1 .. n : out[i].start = values[k].start
    /\ \A t \in Int : Covers(out, t) <=> \E k \in 1 .. n : At(values[k], t)

LEMMA MergeSortedFacts ==
    ASSUME NEW values \in Seq(Spans), InOrder(values),
           \A n \in 1 .. Len(values) : values[n].start < values[n].end
    PROVE  /\ MergeSorted(values) \in Seq(Spans) /\ AreMerged(MergeSorted(values))
           /\ \A t \in Int : Covers(MergeSorted(values), t) <=> Covers(values, t)
<1>0. PICK N \in Nat : N = Len(values)
  OBVIOUS
<1> DEFINE S == [n \in 0 .. N |-> {x \in Seq(Spans) : Follows(x, values, n)}]
           step == [c \in (1 .. N) \X Seq(Spans) |-> Merged(c[2], values[c[1]])]
           equation(f) == f = [n \in 0 .. N |-> IF n = 0 THEN <<>> ELSE Merged(f[n - 1], values[n])]
<1>1. \A n \in 0 .. N : \A x : x \in S[n] <=> x \in Seq(Spans) /\ Follows(x, values, n)
  OBVIOUS
<1>2. ASSUME NEW n \in 1 .. N, NEW x \in Seq(Spans)
      PROVE  step[<<n, x>>] = Merged(x, values[n])
  OBVIOUS
<1> HIDE DEF S, step
<1>3. ASSUME NEW n \in 1 .. N, NEW x \in Seq(Spans), x \in S[n - 1]
      PROVE  (Merged(x, values[n])) \in S[n]
  <2>1. n - 1 \in 0 .. N /\ n \in 0 .. N /\ n \in Nat \ {0} /\ values[n] \in Spans /\ 1 .. n = (1 .. n - 1) \union {n}
    BY <1>0
  <2>2. Follows(x, values, n - 1)
    BY <1>1, <1>3, <2>1
  <2>3. PICK v : v = values[n]
    OBVIOUS
  <2>4. v \in Spans /\ v.start < v.end
    BY <1>0, <2>1, <2>3
  <2>5. \A i \in 1 .. Len(x) : x[i].start <= v.start
    <3>1. \A k \in 1 .. n - 1 : values[k].start <= v.start
      BY <1>0, <2>3 DEF InOrder
    <3> QED
      BY <2>2, <3>1 DEF Follows
  <2>6. /\ Merged(x, v) \in Seq(Spans) /\ AreMerged(Merged(x, v))
        /\ \A i \in 1 .. Len(Merged(x, v)) :
               \/ Merged(x, v)[i].start = v.start
               \/ \E m \in 1 .. Len(x) : Merged(x, v)[i].start = x[m].start
        /\ \A t \in Int : Covers(Merged(x, v), t) <=> Covers(x, t) \/ At(v, t)
    <3>1. AreMerged(x)
      BY <2>2 DEF Follows
    <3> QED
      BY <2>4, <2>5, <3>1, MergedKeepsApart
  <2>7. \A t \in Int : Covers(Merged(x, v), t) <=> \E k \in 1 .. n : At(values[k], t)
    BY <2>1, <2>2, <2>3, <2>6, AppendedAreMore DEF Follows
  <2>8. \A i \in 1 .. Len(Merged(x, v)) : \E k \in 1 .. n : Merged(x, v)[i].start = values[k].start
    <3>1. SUFFICES ASSUME NEW i \in 1 .. Len(Merged(x, v))
                   PROVE  \E k \in 1 .. n : Merged(x, v)[i].start = values[k].start
      OBVIOUS
    <3>2. CASE Merged(x, v)[i].start = v.start
      BY <2>1, <2>3, <3>2
    <3>3. CASE \E m \in 1 .. Len(x) : Merged(x, v)[i].start = x[m].start
      <4>1. PICK m \in 1 .. Len(x) : Merged(x, v)[i].start = x[m].start
        BY <3>3
      <4>2. PICK k \in 1 .. n - 1 : x[m].start = values[k].start
        BY <2>2 DEF Follows
      <4> QED
        BY <2>1, <4>1, <4>2
    <3> QED
      BY <2>6, <3>2, <3>3
  <2>9. Follows(Merged(x, v), values, n)
    BY <2>6, <2>7, <2>8 DEF Follows
  <2> QED
    BY <1>1, <2>1, <2>3, <2>6, <2>9
<1>4. <<>> \in S[0]
  <2>1. 0 \in 0 .. N /\ <<>> \in Seq(Spans) /\ 1 .. 0 = {} /\ Len(<<>>) = 0 /\ DOMAIN <<>> = {}
    OBVIOUS
  <2>2. AreMerged(<<>>)
    BY <2>1 DEF AreMerged, Spans
  <2>3. Follows(<<>>, values, 0)
    BY <2>1, <2>2, NoElements DEF Follows, Covers
  <2> QED
    BY <1>1, <2>1, <2>3
<1>5. StepsWithin(N, Seq(Spans), S, <<>>, step)
  <2>1. \A n \in 0 .. N : S[n] \subseteq Seq(Spans)
    BY <1>1
  <2>2. ASSUME NEW n \in 1 .. N, NEW x \in S[n - 1] PROVE step[<<n, x>>] \in S[n]
    <3>1. n - 1 \in 0 .. N
      BY <1>0
    <3>2. x \in Seq(Spans)
      BY <2>1, <3>1
    <3>3. step[<<n, x>>] = Merged(x, values[n])
      BY ONLY <1>2, <3>2
    <3>4. (Merged(x, values[n])) \in S[n]
      BY ONLY <1>3, <2>2, <3>2
    <3> QED
      BY ONLY <3>3, <3>4
  <2> QED
    BY <1>4, <2>1, <2>2 DEF StepsWithin
<1>6. PICK f \in [0 .. N -> Seq(Spans)] :
          /\ f[0] = <<>>
          /\ \A n \in 1 .. N : f[n] = step[<<n, f[n - 1]>>]
          /\ \A n \in 0 .. N : f[n] \in S[n]
  <2>1. N \in Nat
    OBVIOUS
  <2>2. PICK D, base : D = Seq(Spans) /\ base = <<>>
    OBVIOUS
  <2>3. StepsWithin(N, D, S, base, step)
    BY ONLY <1>5, <2>2
  <2>4. AreSteps(N, D, S, base, step)
    BY ONLY <2>1, <2>3, StepsDefine
  <2>5. \E f \in [0 .. N -> D] :
          /\ f[0] = base
          /\ \A n \in 1 .. N : f[n] = step[<<n, f[n - 1]>>]
          /\ \A n \in 0 .. N : f[n] \in S[n]
    BY ONLY <2>4 DEF AreSteps
  <2> QED
    BY ONLY <2>2, <2>5
<1>7. ASSUME NEW n \in 0 .. N
      PROVE  f[n] = IF n = 0 THEN <<>> ELSE Merged(f[n - 1], values[n])
  <2>1. CASE n = 0
    BY <1>6, <2>1
  <2>2. CASE n \in 1 .. N
    <3>1. n - 1 \in 0 .. N
      BY <2>2
    <3> QED
      BY <1>2, <1>6, <2>2, <3>1
  <2>3. n = 0 \/ n \in 1 .. N
    OBVIOUS
  <2> QED
    BY ONLY <2>1, <2>2, <2>3
<1>8. equation(f)
  BY <1>6, <1>7
<1>9. PICK g : g = CHOOSE h : equation(h)
  OBVIOUS
<1>10. equation(g)
  BY <1>8, <1>9
<1>11. MergeSorted(values) = g[N]
  BY <1>0, <1>9 DEF MergeSorted
<1>12. g[0] = <<>> /\ \A n \in 1 .. N : g[n] = Merged(g[n - 1], values[n])
  <2>1. \A n \in 0 .. N : g[n] = IF n = 0 THEN <<>> ELSE Merged(g[n - 1], values[n])
    BY <1>10
  <2>2. ASSUME NEW n \in 1 .. N PROVE g[n] = Merged(g[n - 1], values[n])
    <3>1. n \in 0 .. N /\ n # 0
      OBVIOUS
    <3> QED
      BY ONLY <2>1, <3>1
  <2>3. g[0] = <<>>
    BY ONLY <2>1, 0 \in 0 .. N, <1>0
  <2> QED
    BY ONLY <2>2, <2>3
<1>13. \A n \in 0 .. N : g[n] \in S[n]
  <2>1. ASSUME NEW n \in 1 .. N, g[n - 1] \in S[n - 1] PROVE g[n] \in S[n]
    <3>1. n - 1 \in 0 .. N
      BY <1>0
    <3>2. g[n - 1] \in Seq(Spans)
      BY <1>1, <2>1, <3>1
    <3> QED
      BY <1>3, <1>12, <2>1, <3>2
  <2> QED
    BY <1>4, <1>12, <2>1, StepsStay
<1>14. g[N] \in S[N] /\ N \in 0 .. N
  <2>1. N \in 0 .. N
    BY <1>0
  <2> QED
    BY <1>13, <2>1
<1>15. g[N] \in Seq(Spans) /\ Follows(g[N], values, N)
  BY <1>1, <1>14
<1>16. \A t \in Int : Covers(values, t) <=> \E k \in 1 .. N : At(values[k], t)
  <2>1. DOMAIN values = 1 .. N
    BY <1>0, SequenceFacts
  <2> QED
    BY <2>1 DEF Covers, Elements
<1> QED
  BY <1>11, <1>15, <1>16 DEF Follows

\* MergeIntervals keeps apart what it covers.
LEMMA MergeFacts ==
    ASSUME NEW values \in Seq(Spans)
    PROVE  /\ MergeIntervals(values) \in Seq(Spans) /\ AreMerged(MergeIntervals(values))
           /\ \A t \in Int : Covers(MergeIntervals(values), t) <=> Covers(values, t)
<1>1. PICK real, sorted : real = Real(values) /\ sorted = ByStart(real)
  OBVIOUS
<1>2. real \in Seq(Spans) /\ Elements(real) = {v \in Elements(values) : v.start < v.end}
  BY <1>1, RealFacts
<1>3. /\ sorted \in Seq(Spans) /\ Elements(sorted) = Elements(real)
      /\ \A p, q \in 1 .. Len(sorted) : p < q => sorted[p].start <= sorted[q].start
  BY <1>1, <1>2, TimesOfSpans, ByStartFacts
<1>4. InOrder(sorted)
  BY <1>3 DEF InOrder
<1>5. \A n \in 1 .. Len(sorted) : sorted[n].start < sorted[n].end
  <2>1. \A n \in 1 .. Len(sorted) : sorted[n] \in Elements(sorted)
    BY <1>3, SequenceFacts DEF Elements
  <2> QED
    BY <1>2, <1>3, <2>1
<1>6. /\ MergeSorted(sorted) \in Seq(Spans) /\ AreMerged(MergeSorted(sorted))
      /\ \A t \in Int : Covers(MergeSorted(sorted), t) <=> Covers(sorted, t)
  BY <1>3, <1>4, <1>5, MergeSortedFacts
<1>7. ASSUME NEW t \in Int PROVE Covers(sorted, t) <=> Covers(values, t)
  <2>1. ASSUME NEW v \in Elements(values), At(v, t) PROVE v.start < v.end
    <3>1. v \in Spans
      BY SequenceFacts
    <3>2. v.start \in Int /\ v.end \in Int
      BY <3>1 DEF Spans
    <3> QED
      BY <2>1, <3>2 DEF At
  <2> QED
    BY <1>2, <1>3, <2>1 DEF Covers
<1>8. MergeIntervals(values) = MergeSorted(sorted)
  BY <1>1 DEF MergeIntervals
<1> QED
  BY <1>6, <1>7, <1>8

(* Statuses *)

LEMMA ExtendedStatus ==
    ASSUME NEW out \in Seq(Labelled), out # <<>>, NEW v \in Labelled
    PROVE  Extend(out, v)[Len(out)].status = out[Len(out)].status
<1>1. PICK L \in Nat \ {0} : L = Len(out) /\ DOMAIN out = 1 .. L /\ \A n \in 1 .. L : out[n] \in Labelled
  BY SequenceFacts, EmptySeq
<1>2. PICK last, end : last = out[L] /\ end = Later(out[L].end, v.end)
  OBVIOUS
<1>3. PICK new : new = [last EXCEPT !.end = end]
  OBVIOUS
<1>4. new.status = last.status
  BY <1>1, <1>2, <1>3 DEF Labelled
<1>5. Extend(out, v) = [out EXCEPT ![L] = new]
  BY <1>1, <1>2, <1>3 DEF Extend
<1>6. [out EXCEPT ![L] = new][L] = new
  BY <1>1
<1> QED
  BY <1>1, <1>2, <1>4, <1>5, <1>6

AreReal(s) == \A n \in 1 .. Len(s) : s[n].start < s[n].end

LEMMA StatusIsKept ==
    ASSUME NEW out \in Seq(Labelled), AreReal(out), NEW v \in Labelled, v.start < v.end,
           \A n \in 1 .. Len(out) : out[n].start <= v.start
    PROVE  /\ MergedStatus(out, v) \in Seq(Labelled) /\ AreReal(MergedStatus(out, v))
           /\ \A n \in 1 .. Len(MergedStatus(out, v)) :
                  \/ MergedStatus(out, v)[n].start = v.start
                  \/ \E m \in 1 .. Len(out) : MergedStatus(out, v)[n].start = out[m].start
           /\ \A t \in Int : \A status : Shows(MergedStatus(out, v), t, status) <=>
                                 Shows(out, t, status) \/ (At(v, t) /\ v.status = status)
<1>1. PICK L \in Nat : L = Len(out) /\ DOMAIN out = 1 .. L /\ \A n \in 1 .. L : out[n] \in Labelled
  BY SequenceFacts
<1>2. \A w \in Labelled : w.start \in Int /\ w.end \in Int
  BY DEF Labelled
<1>3. \A n \in 1 .. L : out[n].start < out[n].end /\ out[n].start \in Int /\ out[n].end \in Int
  BY <1>1, <1>2 DEF AreReal
<1>4. CASE out # <<>> /\ v.status = LastOf(out).status /\ v.start <= LastOf(out).end
  <2>1. PICK new : new = Extend(out, v)
    OBVIOUS
  <2>2. MergedStatus(out, v) = new /\ L # 0 /\ v.start <= out[L].end /\ v.status = out[L].status
    BY <1>1, <1>4, <2>1 DEF MergedStatus, LastOf
  <2>3. PICK end : end = Later(out[L].end, v.end)
    OBVIOUS
  <2>4. /\ new \in Seq(Labelled) /\ Len(new) = L /\ DOMAIN new = 1 .. L
        /\ \A n \in 1 .. L - 1 : new[n] = out[n]
        /\ new[L].start = out[L].start /\ new[L].end = end
    <3>1. /\ Extend(out, v) \in Seq(Labelled) /\ Len(Extend(out, v)) = Len(out)
          /\ \A n \in 1 .. Len(out) - 1 : Extend(out, v)[n] = out[n]
          /\ Extend(out, v)[Len(out)].start = out[Len(out)].start
          /\ Extend(out, v)[Len(out)].end = Later(out[Len(out)].end, v.end)
      BY <1>4, ExtendFacts
    <3>2. DOMAIN new = 1 .. L
      BY <1>1, <2>1, <3>1, SequenceFacts
    <3> QED
      BY <1>1, <2>1, <2>3, <3>1, <3>2
  <2>5. new[L].status = v.status
    BY <1>1, <1>4, <2>1, <2>2, ExtendedStatus
  <2>6. end \in Int /\ end >= out[L].end /\ end >= v.end /\ (end = out[L].end \/ end = v.end)
    BY <1>2, <1>3, <2>2, <2>3 DEF Later
  <2>7. \A n \in 1 .. L : /\ new[n].start = out[n].start /\ new[n].end >= out[n].end /\ new[n].end \in Int
                          /\ new[n].status = out[n].status
    BY <1>3, <2>2, <2>4, <2>5, <2>6
  <2>8. AreReal(new)
    BY <1>3, <2>4, <2>7 DEF AreReal
  <2>9. ASSUME NEW t \in Int, NEW status
        PROVE  Shows(new, t, status) <=> Shows(out, t, status) \/ (At(v, t) /\ v.status = status)
    <3>0. /\ Shows(new, t, status) <=> \E n \in 1 .. L : At(new[n], t) /\ new[n].status = status
          /\ Shows(out, t, status) <=> \E n \in 1 .. L : At(out[n], t) /\ out[n].status = status
      BY <1>1, <2>4 DEF Shows, Elements
    <3>1. ASSUME NEW n \in 1 .. L, At(out[n], t) PROVE At(new[n], t)
      BY <1>3, <2>7, <3>1 DEF At
    <3>2. ASSUME At(v, t) PROVE At(new[L], t)
      <4>1. out[L].start <= v.start /\ L \in 1 .. L
        BY <1>1, <2>2
      <4> QED
        BY <1>2, <1>3, <2>4, <2>6, <3>2, <4>1 DEF At
    <3>3. ASSUME NEW n \in 1 .. L, At(new[n], t)
          PROVE  At(out[n], t) \/ (At(v, t) /\ v.status = new[n].status)
      <4>1. CASE n \in 1 .. L - 1
        BY <2>4, <3>3, <4>1
      <4>2. CASE n = L
        BY <1>2, <1>3, <2>2, <2>4, <2>5, <2>6, <3>3, <4>2 DEF At
      <4> QED
        BY <4>1, <4>2
    <3>4. L \in 1 .. L
      BY <2>2
    <3> QED
      BY <2>5, <2>7, <3>0, <3>1, <3>2, <3>3, <3>4
  <2> QED
    BY <1>1, <2>2, <2>4, <2>7, <2>8, <2>9
<1>5. CASE ~(out # <<>> /\ v.status = LastOf(out).status /\ v.start <= LastOf(out).end)
  <2>1. PICK new : new = Append(out, v)
    OBVIOUS
  <2>2. MergedStatus(out, v) = new
    BY <1>5, <2>1 DEF MergedStatus
  <2>3. /\ new \in Seq(Labelled) /\ Len(new) = L + 1
        /\ \A n \in 1 .. L : new[n] = out[n]
        /\ new[L + 1] = v /\ Elements(new) = Elements(out) \union {v}
    BY <1>1, <2>1, AppendFacts
  <2>4. \A n \in 1 .. L + 1 : n \in 1 .. L \/ n = L + 1
    OBVIOUS
  <2>5. AreReal(new)
    BY <1>3, <2>3, <2>4 DEF AreReal
  <2>6. \A t, status : Shows(new, t, status) <=> Shows(out, t, status) \/ (At(v, t) /\ v.status = status)
    BY <2>3 DEF Shows
  <2>7. \A n \in 1 .. L + 1 : new[n].start = v.start \/ \E m \in 1 .. L : new[n].start = out[m].start
    BY <2>3, <2>4
  <2> QED
    BY <1>1, <2>2, <2>3, <2>5, <2>6, <2>7
<1> QED
  BY <1>4, <1>5

ShowsSoFar(out, values, n) ==
    /\ AreReal(out)
    /\ \A i \in 1 .. Len(out) : \E k \in 1 .. n : out[i].start = values[k].start
    /\ \A t \in Int : \A status :
            Shows(out, t, status) <=> \E k \in 1 .. n : At(values[k], t) /\ values[k].status = status

LEMMA MergeStatusSortedFacts ==
    ASSUME NEW values \in Seq(Labelled), InOrder(values), AreReal(values)
    PROVE  /\ MergeStatusSorted(values) \in Seq(Labelled) /\ AreReal(MergeStatusSorted(values))
           /\ \A t \in Int : \A status : Shows(MergeStatusSorted(values), t, status) <=> Shows(values, t, status)
<1>0. PICK N \in Nat : N = Len(values)
  OBVIOUS
<1> DEFINE S == [n \in 0 .. N |-> {x \in Seq(Labelled) : ShowsSoFar(x, values, n)}]
           step == [c \in (1 .. N) \X Seq(Labelled) |-> MergedStatus(c[2], values[c[1]])]
           equation(f) == f = [n \in 0 .. N |-> IF n = 0 THEN <<>> ELSE MergedStatus(f[n - 1], values[n])]
<1>1. \A n \in 0 .. N : \A x : x \in S[n] <=> x \in Seq(Labelled) /\ ShowsSoFar(x, values, n)
  OBVIOUS
<1>2. ASSUME NEW n \in 1 .. N, NEW x \in Seq(Labelled)
      PROVE  step[<<n, x>>] = MergedStatus(x, values[n])
  OBVIOUS
<1> HIDE DEF S, step
<1>3. ASSUME NEW n \in 1 .. N, NEW x \in Seq(Labelled), x \in S[n - 1]
      PROVE  (MergedStatus(x, values[n])) \in S[n]
  <2>1. n - 1 \in 0 .. N /\ n \in 0 .. N /\ n \in Nat \ {0} /\ values[n] \in Labelled /\ 1 .. n = (1 .. n - 1) \union {n}
    BY <1>0
  <2>2. ShowsSoFar(x, values, n - 1)
    BY <1>1, <1>3, <2>1
  <2>3. PICK v : v = values[n]
    OBVIOUS
  <2>4. v \in Labelled /\ v.start < v.end
    BY <1>0, <2>1, <2>3 DEF AreReal
  <2>5. \A i \in 1 .. Len(x) : x[i].start <= v.start
    <3>1. \A k \in 1 .. n - 1 : values[k].start <= v.start
      BY <1>0, <2>3 DEF InOrder
    <3> QED
      BY <2>2, <3>1 DEF ShowsSoFar
  <2>6. /\ MergedStatus(x, v) \in Seq(Labelled) /\ AreReal(MergedStatus(x, v))
        /\ \A i \in 1 .. Len(MergedStatus(x, v)) :
               \/ MergedStatus(x, v)[i].start = v.start
               \/ \E m \in 1 .. Len(x) : MergedStatus(x, v)[i].start = x[m].start
        /\ \A t \in Int : \A status : Shows(MergedStatus(x, v), t, status) <=>
                              Shows(x, t, status) \/ (At(v, t) /\ v.status = status)
    <3>1. AreReal(x)
      BY <2>2 DEF ShowsSoFar
    <3> QED
      BY <2>4, <2>5, <3>1, StatusIsKept
  <2>7. \A t \in Int : \A status : Shows(MergedStatus(x, v), t, status) <=>
                            \E k \in 1 .. n : At(values[k], t) /\ values[k].status = status
    <3>1. ASSUME NEW t \in Int, NEW status
          PROVE  Shows(MergedStatus(x, v), t, status) <=> \E k \in 1 .. n : At(values[k], t) /\ values[k].status = status
      <4>1. Shows(x, t, status) <=> \E k \in 1 .. n - 1 : At(values[k], t) /\ values[k].status = status
        BY <2>2 DEF ShowsSoFar
      <4>2. (\E k \in 1 .. n : At(values[k], t) /\ values[k].status = status) <=>
               \/ \E k \in 1 .. n - 1 : At(values[k], t) /\ values[k].status = status
               \/ At(v, t) /\ v.status = status
        BY <2>1, <2>3
      <4> QED
        BY <2>6, <4>1, <4>2
    <3> QED
      BY <3>1
  <2>8. \A i \in 1 .. Len(MergedStatus(x, v)) : \E k \in 1 .. n : MergedStatus(x, v)[i].start = values[k].start
    <3>1. SUFFICES ASSUME NEW i \in 1 .. Len(MergedStatus(x, v))
                   PROVE  \E k \in 1 .. n : MergedStatus(x, v)[i].start = values[k].start
      OBVIOUS
    <3>2. CASE MergedStatus(x, v)[i].start = v.start
      BY <2>1, <2>3, <3>2
    <3>3. CASE \E m \in 1 .. Len(x) : MergedStatus(x, v)[i].start = x[m].start
      <4>1. PICK m \in 1 .. Len(x) : MergedStatus(x, v)[i].start = x[m].start
        BY <3>3
      <4>2. PICK k \in 1 .. n - 1 : x[m].start = values[k].start
        BY <2>2 DEF ShowsSoFar
      <4> QED
        BY <2>1, <4>1, <4>2
    <3> QED
      BY <2>6, <3>2, <3>3
  <2>9. ShowsSoFar(MergedStatus(x, v), values, n)
    BY <2>6, <2>7, <2>8 DEF ShowsSoFar
  <2> QED
    BY <1>1, <2>1, <2>3, <2>6, <2>9
<1>4. <<>> \in S[0]
  <2>1. 0 \in 0 .. N /\ <<>> \in Seq(Labelled) /\ 1 .. 0 = {} /\ Len(<<>>) = 0
    OBVIOUS
  <2>2. ShowsSoFar(<<>>, values, 0)
    BY <2>1, NoElements DEF ShowsSoFar, Shows, AreReal
  <2> QED
    BY <1>1, <2>1, <2>2
<1>5. StepsWithin(N, Seq(Labelled), S, <<>>, step)
  <2>1. \A n \in 0 .. N : S[n] \subseteq Seq(Labelled)
    BY <1>1
  <2>2. ASSUME NEW n \in 1 .. N, NEW x \in S[n - 1] PROVE step[<<n, x>>] \in S[n]
    <3>1. n - 1 \in 0 .. N
      BY <1>0
    <3>2. x \in Seq(Labelled)
      BY <2>1, <3>1
    <3>3. step[<<n, x>>] = MergedStatus(x, values[n])
      BY ONLY <1>2, <3>2
    <3>4. (MergedStatus(x, values[n])) \in S[n]
      BY ONLY <1>3, <2>2, <3>2
    <3> QED
      BY ONLY <3>3, <3>4
  <2> QED
    BY <1>4, <2>1, <2>2 DEF StepsWithin
<1>6. PICK f \in [0 .. N -> Seq(Labelled)] :
          /\ f[0] = <<>>
          /\ \A n \in 1 .. N : f[n] = step[<<n, f[n - 1]>>]
          /\ \A n \in 0 .. N : f[n] \in S[n]
  <2>1. N \in Nat
    OBVIOUS
  <2>2. PICK D, base : D = Seq(Labelled) /\ base = <<>>
    OBVIOUS
  <2>3. StepsWithin(N, D, S, base, step)
    BY ONLY <1>5, <2>2
  <2>4. AreSteps(N, D, S, base, step)
    BY ONLY <2>1, <2>3, StepsDefine
  <2>5. \E f \in [0 .. N -> D] :
          /\ f[0] = base
          /\ \A n \in 1 .. N : f[n] = step[<<n, f[n - 1]>>]
          /\ \A n \in 0 .. N : f[n] \in S[n]
    BY ONLY <2>4 DEF AreSteps
  <2> QED
    BY ONLY <2>2, <2>5
<1>7. ASSUME NEW n \in 0 .. N
      PROVE  f[n] = IF n = 0 THEN <<>> ELSE MergedStatus(f[n - 1], values[n])
  <2>1. CASE n = 0
    BY <1>6, <2>1
  <2>2. CASE n \in 1 .. N
    <3>1. n - 1 \in 0 .. N
      BY <2>2
    <3> QED
      BY <1>2, <1>6, <2>2, <3>1
  <2>3. n = 0 \/ n \in 1 .. N
    OBVIOUS
  <2> QED
    BY ONLY <2>1, <2>2, <2>3
<1>8. equation(f)
  BY <1>6, <1>7
<1>9. PICK g : g = CHOOSE h : equation(h)
  OBVIOUS
<1>10. equation(g)
  BY <1>8, <1>9
<1>11. MergeStatusSorted(values) = g[N]
  BY <1>0, <1>9 DEF MergeStatusSorted
<1>12. g[0] = <<>> /\ \A n \in 1 .. N : g[n] = MergedStatus(g[n - 1], values[n])
  <2>1. \A n \in 0 .. N : g[n] = IF n = 0 THEN <<>> ELSE MergedStatus(g[n - 1], values[n])
    BY <1>10
  <2>2. ASSUME NEW n \in 1 .. N PROVE g[n] = MergedStatus(g[n - 1], values[n])
    <3>1. n \in 0 .. N /\ n # 0
      OBVIOUS
    <3> QED
      BY ONLY <2>1, <3>1
  <2>3. g[0] = <<>>
    BY ONLY <2>1, 0 \in 0 .. N, <1>0
  <2> QED
    BY ONLY <2>2, <2>3
<1>13. \A n \in 0 .. N : g[n] \in S[n]
  <2>1. ASSUME NEW n \in 1 .. N, g[n - 1] \in S[n - 1] PROVE g[n] \in S[n]
    <3>1. n - 1 \in 0 .. N
      BY <1>0
    <3>2. g[n - 1] \in Seq(Labelled)
      BY <1>1, <2>1, <3>1
    <3> QED
      BY <1>3, <1>12, <2>1, <3>2
  <2> QED
    BY <1>4, <1>12, <2>1, StepsStay
<1>14. g[N] \in S[N] /\ N \in 0 .. N
  <2>1. N \in 0 .. N
    BY <1>0
  <2> QED
    BY <1>13, <2>1
<1>15. g[N] \in Seq(Labelled) /\ ShowsSoFar(g[N], values, N)
  BY <1>1, <1>14
<1>16. \A t \in Int : \A status :
           Shows(values, t, status) <=> \E k \in 1 .. N : At(values[k], t) /\ values[k].status = status
  <2>1. DOMAIN values = 1 .. N
    BY <1>0, SequenceFacts
  <2> QED
    BY <2>1 DEF Shows, Elements
<1> QED
  BY <1>11, <1>15, <1>16 DEF ShowsSoFar

\* MergeStatus shows the same statuses at every time.
LEMMA MergeStatusFacts ==
    ASSUME NEW values \in Seq(Labelled), AreReal(values)
    PROVE  /\ MergeStatus(values) \in Seq(Labelled) /\ AreReal(MergeStatus(values))
           /\ \A t \in Int : \A status : Shows(MergeStatus(values), t, status) <=> Shows(values, t, status)
<1>1. PICK sorted : sorted = ByStart(values)
  OBVIOUS
<1>2. /\ sorted \in Seq(Labelled) /\ Elements(sorted) = Elements(values)
      /\ \A p, q \in 1 .. Len(sorted) : p < q => sorted[p].start <= sorted[q].start
  BY <1>1, TimesOfSpans, ByStartFacts
<1>3. InOrder(sorted)
  BY <1>2 DEF InOrder
<1>4. AreReal(sorted)
  <2>1. \A v \in Elements(values) : v.start < v.end
    BY SequenceFacts DEF AreReal, Elements
  <2>2. \A n \in 1 .. Len(sorted) : sorted[n] \in Elements(sorted)
    BY <1>2, SequenceFacts DEF Elements
  <2> QED
    BY <1>2, <2>1, <2>2 DEF AreReal
<1>5. /\ MergeStatusSorted(sorted) \in Seq(Labelled) /\ AreReal(MergeStatusSorted(sorted))
      /\ \A t \in Int : \A status : Shows(MergeStatusSorted(sorted), t, status) <=> Shows(sorted, t, status)
  BY <1>2, <1>3, <1>4, MergeStatusSortedFacts
<1>6. \A t, status : Shows(sorted, t, status) <=> Shows(values, t, status)
  BY <1>2 DEF Shows
<1>7. MergeStatus(values) = MergeStatusSorted(sorted)
  BY <1>1 DEF MergeStatus
<1> QED
  BY <1>5, <1>6, <1>7

\* Of intervals that are apart, one holds a range if together they cover it.
LEMMA ContainedIsCovered ==
    ASSUME NEW s \in Seq(Spans), AreMerged(s), NEW range \in Spans, range.start < range.end
    PROVE  Contained(range, s) <=> \A t \in range.start .. range.end - 1 : Covers(s, t)
<1>1. PICK L \in Nat : L = Len(s) /\ DOMAIN s = 1 .. L /\ \A n \in 1 .. L : s[n] \in Spans
  BY SequenceFacts
<1>2. \A w \in Spans : w.start \in Int /\ w.end \in Int
  BY DEF Spans
<1>3. /\ \A n \in 1 .. L : s[n].start < s[n].end /\ s[n].start \in Int /\ s[n].end \in Int
      /\ \A m, n \in 1 .. L : m < n => s[m].end < s[n].start
  BY <1>1, <1>2 DEF AreMerged
<1>4. \A t : Covers(s, t) <=> \E n \in 1 .. L : At(s[n], t)
  BY <1>1 DEF Covers, Elements
<1>5. range.start \in Int /\ range.end \in Int
  BY <1>2
<1>6. ASSUME Contained(range, s), NEW t \in range.start .. range.end - 1 PROVE Covers(s, t)
  <2>1. PICK n \in 1 .. L : s[n].start <= range.start /\ range.end <= s[n].end
    BY <1>1, <1>6 DEF Contained
  <2>2. At(s[n], t)
    BY <1>3, <1>5, <2>1 DEF At
  <2> QED
    BY <1>4, <2>2
<1>7. ASSUME \A t \in range.start .. range.end - 1 : Covers(s, t) PROVE Contained(range, s)
  <2>1. range.start \in range.start .. range.end - 1
    BY <1>5
  <2>2. PICK n \in 1 .. L : s[n].start <= range.start /\ range.start < s[n].end
    BY <1>4, <1>7, <2>1 DEF At
  <2>3. ASSUME s[n].end < range.end PROVE FALSE
    <3>1. s[n].end \in range.start .. range.end - 1
      BY <1>3, <1>5, <2>2, <2>3
    <3>2. PICK m \in 1 .. L : s[m].start <= s[n].end /\ s[n].end < s[m].end
      BY <1>4, <1>7, <3>1 DEF At
    <3>3. m = n \/ m < n \/ n < m
      OBVIOUS
    <3> QED
      BY <1>3, <3>2, <3>3
  <2>4. range.end <= s[n].end
    BY <1>3, <1>5, <2>3
  <2> QED
    BY <1>1, <2>2, <2>4 DEF Contained
<1> QED
  BY <1>6, <1>7

\* A table of rows of the same length.
LEMMA TableFacts ==
    ASSUME NEW M, NEW table \in Seq(Seq(M)), NEW R \in Nat, \A i \in 1 .. Len(table) : Len(table[i]) = R
    PROVE  /\ Flat(table) \in Seq(M)
           /\ \A i \in 1 .. Len(table) : \A j \in 1 .. R : table[i][j] \in Elements(Flat(table))
           /\ \A v \in Elements(Flat(table)) : \E i \in 1 .. Len(table) : \E j \in 1 .. R : v = table[i][j]
<1>0. PICK L \in Nat : L = Len(table) /\ \A i \in 1 .. L : Len(table[i]) = R
  OBVIOUS
<1>1. Flat(table) \in Seq(M) /\ Elements(Flat(table)) = UNION {Elements(table[i]) : i \in 1 .. L}
  <2>1. Flat(table) \in Seq(M) /\ Elements(Flat(table)) = UNION {Elements(table[i]) : i \in 1 .. Len(table)}
    BY FlatFacts
  <2> QED
    BY ONLY <2>1, <1>0
<1>2. \A v : v \in Elements(Flat(table)) <=> \E i \in 1 .. L : v \in Elements(table[i])
  BY ONLY <1>1
<1>3. ASSUME NEW i \in 1 .. L, NEW v PROVE v \in Elements(table[i]) <=> \E j \in 1 .. R : v = table[i][j]
  <2>1. DOMAIN table[i] = 1 .. R
    BY <1>0, SequenceFacts
  <2> QED
    BY <2>1 DEF Elements
<1>4. ASSUME NEW v, v \in Elements(Flat(table)) PROVE \E i \in 1 .. L : \E j \in 1 .. R : v = table[i][j]
  <2>1. PICK i \in 1 .. L : v \in Elements(table[i])
    BY <1>2, <1>4
  <2>2. \E j \in 1 .. R : v = table[i][j]
    BY ONLY <1>3, <2>1
  <2> QED
    BY ONLY <2>1, <2>2
<1>5. ASSUME NEW i \in 1 .. L, NEW j \in 1 .. R PROVE table[i][j] \in Elements(Flat(table))
  <2>1. table[i][j] \in Elements(table[i])
    BY <1>3
  <2> QED
    BY <1>2, <2>1
<1> QED
  BY ONLY <1>0, <1>1, <1>4, <1>5

\* IntersectGroups covers what both groups cover.
LEMMA IntersectGroupsFacts ==
    ASSUME NEW left \in Seq(Spans), NEW right \in Seq(Spans)
    PROVE  /\ IntersectGroups(left, right) \in Seq(Spans) /\ AreMerged(IntersectGroups(left, right))
           /\ \A t \in Int : Covers(IntersectGroups(left, right), t) <=> Covers(left, t) /\ Covers(right, t)
<1>1. PICK L \in Nat, R \in Nat :
          /\ L = Len(left) /\ DOMAIN left = 1 .. L /\ \A i \in 1 .. L : left[i] \in Spans
          /\ R = Len(right) /\ DOMAIN right = 1 .. R /\ \A j \in 1 .. R : right[j] \in Spans
  BY SequenceFacts
<1>2. \A w \in Spans : w.start \in Int /\ w.end \in Int
  BY DEF Spans
<1>3. PICK cell : cell = [i \in 1 .. L |-> [j \in 1 .. R |-> Intersect(left[i], right[j])]]
  OBVIOUS
<1>4. ASSUME NEW v \in Spans, NEW w \in Spans
      PROVE  /\ Intersect(v, w) \in Spans
             /\ \A t \in Int : At(Intersect(v, w), t) <=> At(v, t) /\ At(w, t)
  <2>1. PICK start, end : start = Later(v.start, w.start) /\ end = Sooner(v.end, w.end)
    OBVIOUS
  <2>2. /\ start \in Int /\ end \in Int
        /\ \A t \in Int : start <= t <=> v.start <= t /\ w.start <= t
        /\ \A t \in Int : t < end <=> t < v.end /\ t < w.end
    BY <1>2, <2>1 DEF Later, Sooner
  <2>3. Intersect(v, w) = [start |-> start, end |-> end]
    BY <2>1 DEF Intersect
  <2>4. Intersect(v, w) \in Spans /\ Intersect(v, w).start = start /\ Intersect(v, w).end = end
    BY <2>2, <2>3 DEF Spans
  <2> QED
    BY <2>2, <2>4 DEF At
<1>5. /\ cell \in Seq(Seq(Spans)) /\ Len(cell) = L /\ \A i \in 1 .. L : Len(cell[i]) = R
      /\ \A i \in 1 .. L : \A j \in 1 .. R : cell[i][j] = Intersect(left[i], right[j])
  <2>1. ASSUME NEW i \in 1 .. L
        PROVE  /\ cell[i] \in Seq(Spans) /\ Len(cell[i]) = R
               /\ \A j \in 1 .. R : cell[i][j] = Intersect(left[i], right[j])
    BY <1>1, <1>3, <1>4
  <2> QED
    BY <1>3, <2>1
<1>6. PICK flat : flat = Flat(cell)
  OBVIOUS
<1>7. /\ flat \in Seq(Spans)
      /\ \A i \in 1 .. L : \A j \in 1 .. R : cell[i][j] \in Elements(flat)
      /\ \A v \in Elements(flat) : \E i \in 1 .. L : \E j \in 1 .. R : v = cell[i][j]
  <2>1. cell \in Seq(Seq(Spans)) /\ R \in Nat /\ \A i \in 1 .. Len(cell) : Len(cell[i]) = R
    BY <1>5
  <2>2. PICK D : D = Spans
    OBVIOUS
  <2>3. cell \in Seq(Seq(D))
    BY <2>1, <2>2
  <2>4. /\ Flat(cell) \in Seq(D)
        /\ \A i \in 1 .. Len(cell) : \A j \in 1 .. R : cell[i][j] \in Elements(Flat(cell))
        /\ \A v \in Elements(Flat(cell)) : \E i \in 1 .. Len(cell) : \E j \in 1 .. R : v = cell[i][j]
    BY ONLY <2>1, <2>3, TableFacts
  <2> QED
    BY <1>5, <1>6, <2>2, <2>4
<1>8. IntersectGroups(left, right) = MergeIntervals(flat)
  BY <1>1, <1>3, <1>6 DEF IntersectGroups
<1>9. ASSUME NEW t \in Int PROVE Covers(flat, t) <=> Covers(left, t) /\ Covers(right, t)
  <2>1. /\ Covers(left, t) <=> \E i \in 1 .. L : At(left[i], t)
        /\ Covers(right, t) <=> \E j \in 1 .. R : At(right[j], t)
    BY <1>1 DEF Covers, Elements
  <2>2. Covers(flat, t) <=> \E i \in 1 .. L : \E j \in 1 .. R : At(cell[i][j], t)
    BY <1>7 DEF Covers
  <2>3. \A i \in 1 .. L : \A j \in 1 .. R : At(cell[i][j], t) <=> At(left[i], t) /\ At(right[j], t)
    BY <1>1, <1>4, <1>5
  <2> QED
    BY <2>1, <2>2, <2>3
<1> QED
  BY <1>7, <1>8, <1>9, MergeFacts

CommonSoFar(common, groups, n) ==
    /\ n > 0 \/ AreMerged(groups[1]) => AreMerged(common)
    /\ \A t \in Int : Covers(common, t) <=> \A k \in 1 .. n + 1 : Covers(groups[k], t)

\* IntersectAll covers what all groups cover.
LEMMA IntersectAllFacts ==
    ASSUME NEW groups \in Seq(Seq(Spans)), Len(groups) >= 1, Len(groups) >= 2 \/ AreMerged(groups[1])
    PROVE  /\ IntersectAll(groups) \in Seq(Spans) /\ AreMerged(IntersectAll(groups))
           /\ \A t \in Int : Covers(IntersectAll(groups), t) <=> \A k \in 1 .. Len(groups) : Covers(groups[k], t)
<1>0. PICK N \in Nat : N = Len(groups) - 1
  <2>1. Len(groups) \in Nat
    BY LenProperties
  <2>2. Len(groups) - 1 \in Nat
    BY ONLY <2>1, Len(groups) >= 1
  <2> QED
    BY ONLY <2>2
<1> DEFINE S == [n \in 0 .. N |-> {x \in Seq(Spans) : CommonSoFar(x, groups, n)}]
           step == [c \in (1 .. N) \X Seq(Spans) |-> IntersectGroups(c[2], groups[c[1] + 1])]
           equation(f) == f = [n \in 0 .. N |-> IF n = 0 THEN groups[1] ELSE IntersectGroups(f[n - 1], groups[n + 1])]
<1>1. \A n \in 0 .. N : \A x : x \in S[n] <=> x \in Seq(Spans) /\ CommonSoFar(x, groups, n)
  OBVIOUS
<1>2. ASSUME NEW n \in 1 .. N, NEW x \in Seq(Spans)
      PROVE  step[<<n, x>>] = IntersectGroups(x, groups[n + 1])
  OBVIOUS
<1> HIDE DEF S, step
<1>3. ASSUME NEW n \in 1 .. N, NEW x \in Seq(Spans), x \in S[n - 1]
      PROVE  (IntersectGroups(x, groups[n + 1])) \in S[n]
  <2>1. n - 1 \in 0 .. N /\ n \in 0 .. N /\ groups[n + 1] \in Seq(Spans)
    BY <1>0
  <2>2. CommonSoFar(x, groups, n - 1)
    BY <1>1, <1>3, <2>1
  <2>3. 1 .. n + 1 = (1 .. (n - 1) + 1) \union {n + 1}
    OBVIOUS
  <2>4. PICK next : next = IntersectGroups(x, groups[n + 1])
    OBVIOUS
  <2>5. /\ next \in Seq(Spans) /\ AreMerged(next)
        /\ \A t \in Int : Covers(next, t) <=> Covers(x, t) /\ Covers(groups[n + 1], t)
    BY <2>1, <2>4, IntersectGroupsFacts
  <2>6. CommonSoFar(next, groups, n)
    BY <2>2, <2>3, <2>5 DEF CommonSoFar
  <2> QED
    BY <1>1, <2>1, <2>4, <2>5, <2>6
<1>4. groups[1] \in S[0]
  <2>1. groups[1] \in Seq(Spans) /\ 0 \in 0 .. N /\ 1 .. 0 + 1 = {1}
    BY <1>0
  <2>2. CommonSoFar(groups[1], groups, 0)
    BY <2>1 DEF CommonSoFar
  <2> QED
    BY <1>1, <2>1, <2>2
<1>5. StepsWithin(N, Seq(Spans), S, groups[1], step)
  <2>1. \A n \in 0 .. N : S[n] \subseteq Seq(Spans)
    BY <1>1
  <2>2. ASSUME NEW n \in 1 .. N, NEW x \in S[n - 1] PROVE step[<<n, x>>] \in S[n]
    <3>1. n - 1 \in 0 .. N
      BY <1>0
    <3>2. x \in Seq(Spans)
      BY <2>1, <3>1
    <3>3. step[<<n, x>>] = IntersectGroups(x, groups[n + 1])
      BY ONLY <1>2, <3>2
    <3>4. (IntersectGroups(x, groups[n + 1])) \in S[n]
      BY ONLY <1>3, <2>2, <3>2
    <3> QED
      BY ONLY <3>3, <3>4
  <2> QED
    BY <1>4, <2>1, <2>2 DEF StepsWithin
<1>6. PICK f \in [0 .. N -> Seq(Spans)] :
          /\ f[0] = groups[1]
          /\ \A n \in 1 .. N : f[n] = step[<<n, f[n - 1]>>]
          /\ \A n \in 0 .. N : f[n] \in S[n]
  <2>1. N \in Nat
    OBVIOUS
  <2>2. PICK D, base : D = Seq(Spans) /\ base = groups[1]
    OBVIOUS
  <2>3. StepsWithin(N, D, S, base, step)
    BY ONLY <1>5, <2>2
  <2>4. AreSteps(N, D, S, base, step)
    BY ONLY <2>1, <2>3, StepsDefine
  <2>5. \E f \in [0 .. N -> D] :
          /\ f[0] = base
          /\ \A n \in 1 .. N : f[n] = step[<<n, f[n - 1]>>]
          /\ \A n \in 0 .. N : f[n] \in S[n]
    BY ONLY <2>4 DEF AreSteps
  <2> QED
    BY ONLY <2>2, <2>5
<1>7. ASSUME NEW n \in 0 .. N
      PROVE  f[n] = IF n = 0 THEN groups[1] ELSE IntersectGroups(f[n - 1], groups[n + 1])
  <2>1. CASE n = 0
    BY <1>6, <2>1
  <2>2. CASE n \in 1 .. N
    <3>1. n - 1 \in 0 .. N
      BY <2>2
    <3> QED
      BY <1>2, <1>6, <2>2, <3>1
  <2>3. n = 0 \/ n \in 1 .. N
    OBVIOUS
  <2> QED
    BY ONLY <2>1, <2>2, <2>3
<1>8. equation(f)
  BY <1>6, <1>7
<1>9. PICK g : g = CHOOSE h : equation(h)
  OBVIOUS
<1>10. equation(g)
  BY <1>8, <1>9
<1>11. IntersectAll(groups) = g[N]
  BY <1>0, <1>9 DEF IntersectAll
<1>12. g[0] = groups[1] /\ \A n \in 1 .. N : g[n] = IntersectGroups(g[n - 1], groups[n + 1])
  <2>1. \A n \in 0 .. N : g[n] = IF n = 0 THEN groups[1] ELSE IntersectGroups(g[n - 1], groups[n + 1])
    BY <1>10
  <2>2. ASSUME NEW n \in 1 .. N PROVE g[n] = IntersectGroups(g[n - 1], groups[n + 1])
    <3>1. n \in 0 .. N /\ n # 0
      OBVIOUS
    <3> QED
      BY ONLY <2>1, <3>1
  <2>3. g[0] = groups[1]
    BY ONLY <2>1, 0 \in 0 .. N, <1>0
  <2> QED
    BY ONLY <2>2, <2>3
<1>13. \A n \in 0 .. N : g[n] \in S[n]
  <2>1. ASSUME NEW n \in 1 .. N, g[n - 1] \in S[n - 1] PROVE g[n] \in S[n]
    <3>1. n - 1 \in 0 .. N
      BY <1>0
    <3>2. g[n - 1] \in Seq(Spans)
      BY <1>1, <2>1, <3>1
    <3> QED
      BY <1>3, <1>12, <2>1, <3>2
  <2> QED
    BY <1>4, <1>12, <2>1, StepsStay
<1>14. g[N] \in S[N] /\ N \in 0 .. N
  <2>1. N \in 0 .. N
    BY <1>0
  <2> QED
    BY <1>13, <2>1
<1>15. g[N] \in Seq(Spans) /\ CommonSoFar(g[N], groups, N) /\ N + 1 = Len(groups)
  BY <1>0, <1>1, <1>14
<1>16. N > 0 \/ AreMerged(groups[1])
  BY <1>15
<1> QED
  BY <1>11, <1>15, <1>16 DEF CommonSoFar

(* The pages of free/busy *)

LEMMA DivisionFacts ==
    ASSUME NEW a \in Int, NEW d \in Nat \ {0}
    PROVE  a \div d \in Int /\ d * (a \div d) <= a /\ a < d * (a \div d) + d
OBVIOUS

LEMMA MultiplesAreApart ==
    ASSUME NEW a \in Int, NEW b \in Int, NEW d \in Nat \ {0}, a < b
    PROVE  d * a + d <= d * b
OBVIOUS

LEMMA LimitFacts ==
    /\ Quarter \in Nat \ {0} /\ HalfHour \in Nat \ {0} /\ DayLength \in Nat \ {0}
    /\ MaxChunk \in Nat /\ MaxChunk >= 2 * HalfHour /\ MaxChunk > HalfHour
BY ChunksAreLonger DEF HalfHour

PartCount(start, end, d) == (end - start + d - 1) \div d
PartStart(start, d, n) == start + (n - 1) * d

\* There is one part with this time.
HasOnePart(start, d, N, t) ==
    \E n \in 1 .. N :
        /\ PartStart(start, d, n) <= t /\ t < PartStart(start, d, n) + d
        /\ \A m \in 1 .. N : PartStart(start, d, m) <= t /\ t < PartStart(start, d, m) + d => m = n

\* The parts of length d of start .. end - 1, the last one shorter: a time is in
\* just one.
LEMMA PartFacts ==
    ASSUME NEW start \in Int, NEW end \in Int, start < end, NEW d \in Nat \ {0},
           NEW N, N = PartCount(start, end, d)
    PROVE  /\ N \in Nat
           /\ \A n \in 1 .. N : /\ PartStart(start, d, n) \in Int
                               /\ PartStart(start, d, n) >= start /\ PartStart(start, d, n) < end
           /\ \A t \in start .. end - 1 : HasOnePart(start, d, N, t)
<1>1. N \in Int /\ d * N <= end - start + d - 1 /\ end - start + d - 1 < d * N + d
  BY DivisionFacts DEF PartCount
<1>2. N \in Nat
  <2>1. ASSUME N < 0 PROVE FALSE
    <3>1. d * N + d <= d * 0
      BY ONLY <1>1, <2>1, MultiplesAreApart, 0 \in Int, d \in Nat \ {0}
    <3> QED
      BY <1>1, <3>1
  <2> QED
    BY <1>1, <2>1
<1>3. ASSUME NEW n \in 1 .. N
      PROVE  start + (n - 1) * d \in Int /\ start + (n - 1) * d < end /\ start + (n - 1) * d >= start
  <2>1. n - 1 \in Int /\ N \in Int /\ n - 1 < N
    BY <1>1, <1>2
  <2>2. d * (n - 1) + d <= d * N
    BY ONLY <2>1, MultiplesAreApart, d \in Nat \ {0}
  <2>3. (n - 1) * d = d * (n - 1) /\ (n - 1) * d \in Int /\ d * N \in Int /\ (n - 1) * d >= 0
    BY <2>1
  <2> QED
    BY <1>1, <2>2, <2>3
<1>4. ASSUME NEW t \in start .. end - 1
      PROVE  HasOnePart(start, d, N, t)
  <2>1. PICK q : q = (t - start) \div d
    OBVIOUS
  <2>2. q \in Int /\ d * q <= t - start /\ t - start < d * q + d /\ d * q \in Int
    BY <2>1, DivisionFacts
  <2>3. q >= 0
    <3>1. ASSUME q < 0 PROVE FALSE
      <4>1. d * q + d <= d * 0
        BY ONLY <2>2, <3>1, MultiplesAreApart, 0 \in Int, d \in Nat \ {0}
      <4> QED
        BY <2>2, <4>1
    <3> QED
      BY <2>2, <3>1
  <2>4. q < N
    <3>1. ASSUME N <= q PROVE FALSE
      <4>1. d * N <= d * q
        <5>1. CASE N = q
          BY <2>2, <5>1
        <5>2. CASE N < q
          <6>1. d * N + d <= d * q
            BY ONLY <1>1, <2>2, <5>2, MultiplesAreApart, d \in Nat \ {0}
          <6> QED
            BY <1>1, <2>2, <6>1
        <5> QED
          BY <1>1, <2>2, <3>1, <5>1, <5>2
      <4>2. d * N \in Int
        BY <1>1
      <4> QED
        BY <1>1, <2>2, <4>1, <4>2
    <3> QED
      BY <1>1, <2>2, <3>1
  <2>5. q + 1 \in 1 .. N /\ (q + 1) - 1 = q /\ q * d = d * q
    BY <1>1, <2>2, <2>3, <2>4
  <2>6. ASSUME NEW m \in 1 .. N, start + (m - 1) * d <= t, t < start + (m - 1) * d + d PROVE m = q + 1
    <3>1. m - 1 \in Int /\ (m - 1) * d = d * (m - 1) /\ d * (m - 1) \in Int
      OBVIOUS
    <3>2. ASSUME m - 1 < q PROVE FALSE
      <4>1. d * (m - 1) + d <= d * q
        BY ONLY <2>2, <3>1, <3>2, MultiplesAreApart, d \in Nat \ {0}
      <4> QED
        BY <2>2, <2>6, <3>1, <4>1
    <3>3. ASSUME q < m - 1 PROVE FALSE
      <4>1. d * q + d <= d * (m - 1)
        BY ONLY <2>2, <3>1, <3>3, MultiplesAreApart, d \in Nat \ {0}
      <4> QED
        BY <2>2, <2>6, <3>1, <4>1
    <3> QED
      BY <2>2, <3>1, <3>2, <3>3
  <2>7. start + ((q + 1) - 1) * d <= t /\ t < start + ((q + 1) - 1) * d + d
    BY <2>2, <2>5
  <2>8. PartStart(start, d, q + 1) <= t /\ t < PartStart(start, d, q + 1) + d
    BY ONLY <2>7 DEF PartStart
  <2>9. \A m \in 1 .. N : PartStart(start, d, m) <= t /\ t < PartStart(start, d, m) + d => m = q + 1
    BY ONLY <2>6 DEF PartStart
  <2> QED
    BY ONLY <2>5, <2>8, <2>9 DEF HasOnePart
<1>5. ASSUME NEW n \in 1 .. N
      PROVE  PartStart(start, d, n) \in Int /\ PartStart(start, d, n) >= start /\ PartStart(start, d, n) < end
  BY ONLY <1>3 DEF PartStart
<1> QED
  BY ONLY <1>2, <1>4, <1>5

Busy == [start : Int, end : Int, status : {"tentative", "busy"}]

\* Somebody with working hours and a calendar.
IsPerson(person) ==
    /\ AreMerged(person.working)
    /\ person.busy \subseteq Busy /\ \A b \in person.busy : b.start < b.end

\* What a status that is shown for a time says of the calendar.
IsTrueOf(person, t, status) ==
    /\ status \in {"free", "tentative", "busy"}
    /\ status = "free" => \A b \in person.busy : ~At(b, t)
    /\ status = "tentative" => \A b \in person.busy : At(b, t) => b.status = "tentative"
    /\ status # "free" => \E b \in person.busy :
           b.status = status /\ b.start < t + 1 + HalfHour /\ t - HalfHour < b.end

LEMMA ReportIsTrue ==
    ASSUME NEW person, IsPerson(person), NEW s \in Int, NEW t \in Int, s <= t, t < s + HalfHour
    PROVE  IsTrueOf(person, t, Reported(person, s))
<1>1. \A b \in person.busy : b.start \in Int /\ b.end \in Int /\ b.start < b.end /\ b.status \in {"tentative", "busy"}
  BY DEF IsPerson, Busy
<1>2. HalfHour \in Nat \ {0}
  BY LimitFacts
<1>3. PICK H : H = HalfHour
  OBVIOUS
<1>4. PICK touched : touched = {b.status : b \in {c \in person.busy : c.start < s + H /\ s < c.end}}
  OBVIOUS
<1>5. Reported(person, s) = IF "busy" \in touched THEN "busy" ELSE IF "tentative" \in touched THEN "tentative" ELSE "free"
  BY <1>3, <1>4 DEF Reported
<1>6. \A status : status \in touched <=> \E b \in person.busy : b.status = status /\ b.start < s + H /\ s < b.end
  BY <1>4
<1>7. \A b \in person.busy : At(b, t) => b.start < s + H /\ s < b.end
  BY <1>1, <1>2, <1>3 DEF At
<1>8. \A b \in person.busy : b.start < s + H /\ s < b.end => b.start < t + 1 + H /\ t - H < b.end
  BY <1>1, <1>2, <1>3
<1>9. CASE "busy" \in touched
  <2>1. \E b \in person.busy : b.status = "busy" /\ b.start < t + 1 + H /\ t - H < b.end
    BY <1>6, <1>8, <1>9
  <2> QED
    BY <1>3, <1>5, <1>9, <2>1 DEF IsTrueOf
<1>10. CASE "busy" \notin touched /\ "tentative" \in touched
  <2>1. \E b \in person.busy : b.status = "tentative" /\ b.start < t + 1 + H /\ t - H < b.end
    BY <1>6, <1>8, <1>10
  <2>2. \A b \in person.busy : At(b, t) => b.status = "tentative"
    BY <1>1, <1>6, <1>7, <1>10
  <2> QED
    BY <1>3, <1>5, <1>10, <2>1, <2>2 DEF IsTrueOf
<1>11. CASE "busy" \notin touched /\ "tentative" \notin touched
  <2>1. \A b \in person.busy : ~At(b, t)
    BY <1>1, <1>6, <1>7, <1>11
  <2> QED
    BY <1>5, <1>11, <2>1 DEF IsTrueOf
<1> QED
  BY <1>9, <1>10, <1>11

\* What a page says of a time.
Said(page, known, person, t, status) ==
    /\ status \in Statuses /\ At(page, t)
    /\ IF known THEN IsTrueOf(person, t, status) ELSE status = "noData"

\* A page shows one status at every time in it, and nothing else.
LEMMA PageFacts ==
    ASSUME NEW page \in Spans, page.start < page.end, NEW known \in BOOLEAN, NEW person, IsPerson(person)
    PROVE  /\ PageIntervals(page, known, person) \in Seq(Labelled)
           /\ AreReal(PageIntervals(page, known, person))
           /\ \A t \in Int : \A status :
                  Shows(PageIntervals(page, known, person), t, status) => Said(page, known, person, t, status)
           /\ \A t \in Int : At(page, t) => \E status :
                  /\ Shows(PageIntervals(page, known, person), t, status)
                  /\ \A other : Shows(PageIntervals(page, known, person), t, other) => other = status
<1>1. page.start \in Int /\ page.end \in Int
  BY DEF Spans
<1>2. PICK H : H = HalfHour
  OBVIOUS
<1>3. H \in Nat \ {0}
  BY <1>2, LimitFacts
<1>4. PICK all : all = PageIntervals(page, known, person)
  OBVIOUS
<1>5. CASE ~known
  <2>1. PICK v : v = [start |-> page.start, end |-> page.end, status |-> "noData"]
    OBVIOUS
  <2>2. v \in Labelled /\ v.start = page.start /\ v.end = page.end /\ v.status = "noData"
    BY <1>1, <2>1 DEF Labelled, Statuses
  <2>3. all = <<v>>
    BY <1>4, <1>5, <2>1 DEF PageIntervals
  <2>4. all \in Seq(Labelled) /\ Len(all) = 1 /\ all[1] = v /\ DOMAIN all = {1} /\ Elements(all) = {v}
    BY <2>2, <2>3 DEF Elements
  <2>5. AreReal(all)
    BY <2>2, <2>4 DEF AreReal
  <2>6. \A t \in Int : \A status : Shows(all, t, status) <=> At(page, t) /\ status = "noData"
    BY <2>2, <2>4 DEF Shows, At
  <2> QED
    <3>1. \A t \in Int : \A status : Shows(all, t, status) => Said(page, known, person, t, status)
      BY <1>5, <2>6 DEF Said, Statuses
    <3>2. \A t \in Int : At(page, t) =>
              Shows(all, t, "noData") /\ \A other : Shows(all, t, other) => other = "noData"
      BY <2>6
    <3>3. \A t \in Int : At(page, t) => \E status :
              Shows(all, t, status) /\ \A other : Shows(all, t, other) => other = status
      BY <3>2
    <3> QED
      BY <1>4, <2>4, <2>5, <3>1, <3>3
<1>6. CASE known
  <2>1. PICK N : N = PartCount(page.start, page.end, H)
    OBVIOUS
  <2>2. /\ N \in Nat
        /\ \A n \in 1 .. N : /\ PartStart(page.start, H, n) \in Int
                            /\ PartStart(page.start, H, n) >= page.start /\ PartStart(page.start, H, n) < page.end
        /\ \A t \in page.start .. page.end - 1 : HasOnePart(page.start, H, N, t)
    <3>1. PICK start \in Int, end \in Int : start = page.start /\ end = page.end
      BY <1>1
    <3>2. start < end
      BY <3>1
    <3>3. N = PartCount(start, end, H)
      BY <2>1, <3>1
    <3>4. N \in Nat
      BY ONLY <1>3, <3>2, <3>3, PartFacts, start \in Int, end \in Int
    <3>5. \A n \in 1 .. N : /\ PartStart(start, H, n) \in Int
                            /\ PartStart(start, H, n) >= start /\ PartStart(start, H, n) < end
      BY ONLY <1>3, <3>2, <3>3, PartFacts, start \in Int, end \in Int
    <3>6. \A t \in start .. end - 1 : HasOnePart(start, H, N, t)
      BY ONLY <1>3, <3>2, <3>3, PartFacts, start \in Int, end \in Int
    <3> QED
      BY ONLY <3>1, <3>4, <3>5, <3>6
  <2>3. PICK from : from = [n \in 1 .. N |-> PartStart(page.start, H, n)]
    OBVIOUS
  <2>14. /\ \A n \in 1 .. N : from[n] \in Int /\ from[n] >= page.start /\ from[n] < page.end
         /\ \A t \in page.start .. page.end - 1 : \E n \in 1 .. N :
                /\ from[n] <= t /\ t < from[n] + H
                /\ \A m \in 1 .. N : from[m] <= t /\ t < from[m] + H => m = n
    BY ONLY <2>2, <2>3 DEF HasOnePart
  <2>4. \A n \in 1 .. N : from[n] \in Int /\ from[n] < page.end
    BY <2>14
  <2>5. \A n \in 1 .. N : from[n] >= page.start
    BY <2>14
  <2>6. all = [n \in 1 .. N |-> [start |-> from[n], end |-> Sooner(from[n] + H, page.end),
                                 status |-> Reported(person, from[n])]]
    BY <1>2, <1>4, <1>6, <2>1, <2>3 DEF PageIntervals, PartCount, PartStart
  <2>7. ASSUME NEW n \in 1 .. N
        PROVE  /\ all[n] \in Labelled /\ all[n].start < all[n].end /\ all[n].status = Reported(person, from[n])
               /\ \A t \in Int : At(all[n], t) <=> from[n] <= t /\ t < from[n] + H /\ t < page.end
               /\ \A t \in Int : At(all[n], t) => At(page, t) /\ IsTrueOf(person, t, all[n].status)
    <3>1. PICK end : end = Sooner(from[n] + H, page.end)
      OBVIOUS
    <3>2. end \in Int /\ from[n] < end /\ \A t \in Int : t < end <=> t < from[n] + H /\ t < page.end
      BY <1>1, <1>3, <2>4, <3>1 DEF Sooner
    <3>3. Reported(person, from[n]) \in {"free", "tentative", "busy"}
      BY DEF Reported
    <3>4. all[n] = [start |-> from[n], end |-> end, status |-> Reported(person, from[n])]
      BY <2>6, <3>1
    <3>5. all[n] \in Labelled /\ all[n].start = from[n] /\ all[n].end = end /\ all[n].status = Reported(person, from[n])
      BY <2>4, <3>2, <3>3, <3>4 DEF Labelled, Statuses
    <3>6. \A t \in Int : At(all[n], t) <=> from[n] <= t /\ t < from[n] + H /\ t < page.end
      BY <3>2, <3>5 DEF At
    <3>7. ASSUME NEW t \in Int, At(all[n], t) PROVE At(page, t) /\ IsTrueOf(person, t, all[n].status)
      <4>1. from[n] <= t /\ t < from[n] + H /\ t < page.end
        BY <3>6, <3>7
      <4>2. At(page, t)
        BY <1>1, <2>4, <2>5, <4>1 DEF At
      <4>3. IsTrueOf(person, t, Reported(person, from[n]))
        BY <1>2, <2>4, <4>1, ReportIsTrue
      <4> QED
        BY <3>5, <4>2, <4>3
    <3> QED
      BY <3>2, <3>5, <3>6, <3>7
  <2>8. all \in Seq(Labelled) /\ Len(all) = N /\ DOMAIN all = 1 .. N
    BY <2>2, <2>6, <2>7
  <2>9. AreReal(all)
    BY <2>7, <2>8 DEF AreReal
  <2>10. \A t, status : Shows(all, t, status) <=> \E n \in 1 .. N : At(all[n], t) /\ all[n].status = status
    BY <2>8 DEF Shows, Elements
  <2>11. ASSUME NEW t \in Int, NEW status, Shows(all, t, status) PROVE Said(page, known, person, t, status)
    <3>1. PICK n \in 1 .. N : At(all[n], t) /\ all[n].status = status
      BY <2>10, <2>11
    <3>2. status \in Statuses
      BY <2>7, <3>1 DEF Labelled
    <3> QED
      BY <1>6, <2>7, <3>1, <3>2 DEF Said
  <2>12. ASSUME NEW t \in Int, At(page, t)
         PROVE  \E status : Shows(all, t, status) /\ \A other : Shows(all, t, other) => other = status
    <3>1. t \in page.start .. page.end - 1
      BY <1>1, <2>12 DEF At
    <3>2. PICK n \in 1 .. N : /\ from[n] <= t /\ t < from[n] + H
                              /\ \A m \in 1 .. N : from[m] <= t /\ t < from[m] + H => m = n
      BY <2>14, <3>1
    <3>3. At(all[n], t)
      BY <1>1, <2>7, <3>1, <3>2
    <3>4. \A other : Shows(all, t, other) => other = all[n].status
      BY <2>7, <2>10, <3>2
    <3> QED
      BY <2>10, <3>3, <3>4
  <2> QED
    BY <1>4, <2>8, <2>9, <2>11, <2>12
<1> QED
  BY <1>5, <1>6

(* The queries *)

\* What is put before the values of something smaller.
IsChain(N, M, item, rest) == \A k \in 1 .. N : item[k] \in M /\ rest[k] \in 0 .. k - 1

Chained(N, M, item, rest, f) ==
    /\ f \in [0 .. N -> Seq(M)]
    /\ f[0] = <<>> /\ \A k \in 1 .. N : f[k] = <<item[k]>> \o f[rest[k]]

LEMMA ChainsDefine ==
    ASSUME NEW N \in Nat, NEW M, NEW item, NEW rest, IsChain(N, M, item, rest)
    PROVE  \E f : Chained(N, M, item, rest, f)
<1> USE DEF IsChain
<1> DEFINE chained(f, m) == f[0] = <<>> /\ \A k \in 1 .. m : f[k] = <<item[k]>> \o f[rest[k]]
           defined(m) == \E f \in [0 .. m -> Seq(M)] : chained(f, m)
           T == {m \in Nat : m <= N => defined(m)}
<1>1. 0 \in T
  <2>1. PICK f : f = [n \in 0 .. 0 |-> <<>>]
    OBVIOUS
  <2>2. f \in [0 .. 0 -> Seq(M)] /\ f[0] = <<>>
    BY <2>1
  <2>3. chained(f, 0)
    BY <2>2
  <2> QED
    BY <2>2, <2>3
<1>2. ASSUME NEW m \in Nat, m \in T PROVE m + 1 \in T
  <2> HIDE DEF defined
  <2>1. SUFFICES ASSUME m + 1 <= N PROVE defined(m + 1)
    OBVIOUS
  <2>11. defined(m)
    BY <1>2, <2>1
  <2> USE DEF defined
  <2>2. PICK f \in [0 .. m -> Seq(M)] : chained(f, m)
    BY <2>11
  <2>3. m + 1 \in 1 .. N /\ item[m + 1] \in M /\ rest[m + 1] \in 0 .. m
    BY <2>1
  <2>4. PICK next : next = <<item[m + 1]>> \o f[rest[m + 1]]
    OBVIOUS
  <2>5. next \in Seq(M)
    <3>1. <<item[m + 1]>> \in Seq(M) /\ f[rest[m + 1]] \in Seq(M)
      BY <2>2, <2>3
    <3> QED
      BY <2>4, <3>1
  <2>6. PICK g : g = [n \in 0 .. m + 1 |-> IF n = m + 1 THEN next ELSE f[n]]
    OBVIOUS
  <2>7. /\ g \in [0 .. m + 1 -> Seq(M)]
        /\ g[m + 1] = next
        /\ \A n \in 0 .. m : g[n] = f[n]
    BY <2>2, <2>5, <2>6
  <2>8. ASSUME NEW k \in 1 .. m + 1 PROVE g[k] = <<item[k]>> \o g[rest[k]]
    <3>1. CASE k = m + 1
      BY <2>3, <2>4, <2>7, <3>1
    <3>2. CASE k \in 1 .. m
      <4>1. rest[k] \in 0 .. m /\ k \in 0 .. m
        BY <2>1, <3>2
      <4> QED
        BY <2>2, <2>7, <3>2, <4>1
    <3> QED
      BY <3>1, <3>2
  <2>9. g[0] = <<>>
    BY <2>2, <2>7
  <2> QED
    BY <2>7, <2>8, <2>9
<1> HIDE DEF T
<1>3. \A m \in Nat : m \in T
  BY <1>1, <1>2, NaturalsFollow
<1> USE DEF T
<1>4. defined(N)
  <2> HIDE DEF defined
  <2> QED
    BY <1>3
<1> QED
  BY <1>4 DEF Chained

\* A chunk makes progress; what is long enough for a query leaves nothing or
\* enough for another one.
LEMMA ChunkFacts ==
    ASSUME NEW r \in Nat \ {0}
    PROVE  /\ ChunkLength(r) \in 1 .. r /\ ChunkLength(r) <= MaxChunk
           /\ r >= HalfHour => /\ ChunkLength(r) >= HalfHour
                               /\ r - ChunkLength(r) = 0 \/ r - ChunkLength(r) >= HalfHour
<1>1. PICK H \in Nat \ {0}, X \in Nat : H = HalfHour /\ X = MaxChunk /\ X >= 2 * H
  BY LimitFacts
<1>2. ChunkLength(r) = IF X < r /\ r - X < H THEN r - H ELSE IF r < X THEN r ELSE X
  BY <1>1 DEF ChunkLength, Sooner
<1> QED
  BY <1>1, <1>2

\* Queries that Exchange accepts, one after the other.
ArePages(queries) ==
    /\ queries \in Seq(Spans)
    /\ \A n \in 1 .. Len(queries) : queries[n].end - queries[n].start \in HalfHour .. MaxChunk
    /\ \A m, n \in 1 .. Len(queries) : m < n => queries[m].end <= queries[n].start

Tile(queries, start, end) ==
    /\ ArePages(queries)
    /\ \A n \in 1 .. Len(queries) : start <= queries[n].start /\ queries[n].end <= end
    /\ \A t \in start .. end - 1 : Covers(queries, t)

LEMMA TileFollows ==
    ASSUME NEW rest, NEW v \in Spans, NEW end \in Int, Tile(rest, v.end, end), v.end <= end,
           v.end - v.start \in HalfHour .. MaxChunk
    PROVE  Tile(<<v>> \o rest, v.start, end)
<1>1. rest \in Seq(Spans) /\ ArePages(rest)
  BY DEF Tile, ArePages
<1>2. PICK L \in Nat : L = Len(rest) /\ \A n \in 1 .. L : rest[n] \in Spans
  BY <1>1, SequenceFacts
<1>3. PICK all : all = <<v>> \o rest
  OBVIOUS
<1>4. <<v>> \in Seq(Spans) /\ Len(<<v>>) = 1 /\ <<v>>[1] = v /\ Elements(<<v>>) = {v}
  BY DEF Elements
<1>5. all \in Seq(Spans) /\ Len(all) = L + 1 /\ Elements(all) = {v} \union Elements(rest)
  <2>1. PICK D, one : D = Spans /\ one = <<v>>
    OBVIOUS
  <2>2. one \in Seq(D) /\ rest \in Seq(D)
    BY <1>1, <1>4, <2>1
  <2>3. one \o rest \in Seq(D) /\ Len(one \o rest) = Len(one) + Len(rest)
        /\ Elements(one \o rest) = Elements(one) \union Elements(rest)
    BY ONLY <2>2, ConcatFacts
  <2>4. Len(one) = 1 /\ Elements(one) = {v} /\ all = one \o rest
    BY <1>3, <1>4, <2>1
  <2> QED
    BY <1>2, <2>1, <2>3, <2>4
<1>6. all[1] = v /\ \A n \in 1 .. L : all[n + 1] = rest[n]
  BY <1>1, <1>2, <1>3, <1>4
<1>7. \A n \in 1 .. L + 1 : n = 1 \/ (n - 1 \in 1 .. L /\ all[n] = rest[n - 1])
  <2>1. ASSUME NEW n \in 1 .. L + 1, n # 1 PROVE n - 1 \in 1 .. L /\ all[n] = rest[n - 1]
    <3>1. n - 1 \in 1 .. L /\ (n - 1) + 1 = n
      BY <2>1
    <3> QED
      BY <1>6, <3>1
  <2> QED
    BY <2>1
<1>8. HalfHour \in Nat \ {0} /\ MaxChunk \in Nat
  BY LimitFacts
<1>9. v.start \in Int /\ v.end \in Int /\ v.start < v.end
  BY <1>8 DEF Spans
<1>10. \A n \in 1 .. L : /\ rest[n].start \in Int /\ rest[n].end \in Int
                         /\ rest[n].end - rest[n].start \in HalfHour .. MaxChunk
                         /\ v.end <= rest[n].start /\ rest[n].end <= end
  BY <1>2 DEF Tile, ArePages, Spans
<1>11. \A m, n \in 1 .. L : m < n => rest[m].end <= rest[n].start
  BY <1>2 DEF Tile, ArePages
<1>12. \A n \in 1 .. L + 1 : all[n].end - all[n].start \in HalfHour .. MaxChunk
  BY <1>6, <1>7, <1>10
<1>13. ASSUME NEW m \in 1 .. L + 1, NEW n \in 1 .. L + 1, m < n PROVE all[m].end <= all[n].start
  <2>1. n # 1 /\ n - 1 \in 1 .. L /\ all[n] = rest[n - 1]
    BY <1>7, <1>13
  <2>2. CASE m = 1
    BY <1>6, <1>10, <2>1, <2>2
  <2>3. CASE m # 1
    <3>1. m - 1 \in 1 .. L /\ all[m] = rest[m - 1] /\ m - 1 < n - 1
      BY <1>7, <1>13, <2>3
    <3> QED
      BY <1>11, <2>1, <3>1
  <2> QED
    BY <2>2, <2>3
<1>14. \A n \in 1 .. L + 1 : v.start <= all[n].start /\ all[n].end <= end
  BY <1>6, <1>7, <1>9, <1>10
<1>15. ASSUME NEW t \in v.start .. end - 1 PROVE Covers(all, t)
  <2>1. CASE t < v.end
    BY <1>5, <1>9, <2>1 DEF Covers, At
  <2>2. CASE ~(t < v.end)
    <3>1. t \in v.end .. end - 1
      BY <1>9, <2>2
    <3>2. Covers(rest, t)
      BY <3>1 DEF Tile
    <3> QED
      BY <1>5, <3>2 DEF Covers
  <2> QED
    BY <2>1, <2>2
<1> QED
  BY <1>3, <1>5, <1>12, <1>13, <1>14, <1>15 DEF Tile, ArePages

\* Chunks follow one another from the start to the end.
LEMMA SplitFacts ==
    ASSUME NEW start \in Int, NEW end \in Int, end - start >= HalfHour
    PROVE  Tile(SplitChunks(start, end), start, end)
<1>1. PICK N : N = end - start
  OBVIOUS
<1>2. N \in Nat /\ HalfHour \in Nat \ {0} /\ MaxChunk \in Nat
  BY <1>1, LimitFacts
<1>3. PICK item : item = [k \in 1 .. N |-> [start |-> end - k, end |-> end - k + ChunkLength(k)]]
  OBVIOUS
<1>4. PICK rest : rest = [k \in 1 .. N |-> k - ChunkLength(k)]
  OBVIOUS
<1>5. ASSUME NEW k \in 1 .. N
      PROVE  /\ item[k] \in Spans /\ item[k].start = end - k /\ item[k].end = end - k + ChunkLength(k)
             /\ rest[k] = k - ChunkLength(k) /\ rest[k] \in 0 .. k - 1
  <2>1. ChunkLength(k) \in 1 .. k
    BY <1>2, ChunkFacts
  <2> QED
    BY <1>2, <1>3, <1>4, <2>1 DEF Spans
<1>6. PICK f \in [0 .. N -> Seq(Spans)] :
          f[0] = <<>> /\ \A k \in 1 .. N : f[k] = <<item[k]>> \o f[rest[k]]
  <2>1. PICK D : D = Spans
    OBVIOUS
  <2>2. N \in Nat /\ IsChain(N, D, item, rest)
    BY <1>2, <1>5, <2>1 DEF IsChain
  <2>3. PICK f : Chained(N, D, item, rest, f)
    BY ONLY <2>2, ChainsDefine
  <2> QED
    BY <2>1, <2>3 DEF Chained
<1> DEFINE equation(g) == g = [cursor \in start .. end |->
               IF cursor = end THEN <<>>
               ELSE <<[start |-> cursor, end |-> cursor + ChunkLength(end - cursor)]>>
                    \o g[cursor + ChunkLength(end - cursor)]]
<1>7. PICK g : g = [cursor \in start .. end |-> f[end - cursor]]
  OBVIOUS
<1>8. equation(g)
  <2>1. ASSUME NEW cursor \in start .. end
        PROVE  g[cursor] = IF cursor = end THEN <<>>
               ELSE <<[start |-> cursor, end |-> cursor + ChunkLength(end - cursor)]>>
                    \o g[cursor + ChunkLength(end - cursor)]
    <3>1. PICK k : k = end - cursor
      OBVIOUS
    <3>2. k \in 0 .. N /\ cursor = end - k
      BY <1>1, <3>1
    <3>3. g[cursor] = f[k]
      BY <1>7, <3>1
    <3>4. CASE k = 0
      BY <1>6, <3>1, <3>3, <3>4
    <3>5. CASE k # 0
      <4>1. k \in 1 .. N
        BY <3>2, <3>5
      <4>2. PICK next : next = cursor + ChunkLength(k)
        OBVIOUS
      <4>3. ChunkLength(k) \in 1 .. k
        BY <1>2, <4>1, ChunkFacts
      <4>4. next \in start .. end /\ end - next = rest[k]
        <5>1. rest[k] = k - ChunkLength(k)
          BY <1>5, <4>1
        <5> QED
          BY <1>1, <1>2, <3>2, <4>2, <4>3, <5>1
      <4>5. g[next] = f[rest[k]]
        BY <1>7, <4>4
      <4>6. item[k] = [start |-> cursor, end |-> next]
        BY <1>3, <3>2, <4>1, <4>2
      <4> QED
        <5>1. f[k] = <<item[k]>> \o f[rest[k]]
          BY <1>6, <4>1
        <5>2. cursor # end
          BY <3>2, <4>1
        <5> QED
          BY ONLY <3>1, <3>3, <4>2, <4>5, <4>6, <5>1, <5>2
    <3> QED
      BY <3>4, <3>5
  <2> QED
    BY <1>7, <2>1
<1>9. PICK h : h = CHOOSE x : equation(x)
  OBVIOUS
<1>10. equation(h)
  BY <1>8, <1>9
<1>11. SplitChunks(start, end) = h[start]
  BY <1>9 DEF SplitChunks
<1>12. ASSUME NEW cursor \in start .. end
       PROVE  h[cursor] = IF cursor = end THEN <<>>
                          ELSE <<[start |-> cursor, end |-> cursor + ChunkLength(end - cursor)]>>
                               \o h[cursor + ChunkLength(end - cursor)]
  BY <1>10
<1> HIDE DEF equation
<1> DEFINE tiled(k) == (k = 0 \/ k >= HalfHour) => Tile(h[end - k], end - k, end)
           all(k) == \A j \in 0 .. k : tiled(j)
           T == {k \in Nat : k <= N => all(k)}
<1>13. 0 \in T
  <2>1. h[end - 0] = <<>>
    <3>1. end \in start .. end /\ end - 0 = end
      BY <1>1, <1>2
    <3> QED
      BY <1>12, <3>1
  <2>2. <<>> \in Seq(Spans) /\ Len(<<>>) = 0
    OBVIOUS
  <2>3. Tile(<<>>, end - 0, end)
    BY <2>2 DEF Tile, ArePages
  <2>4. \A j \in 0 .. 0 : j = 0
    OBVIOUS
  <2> QED
    BY <2>1, <2>3, <2>4
<1>14. ASSUME NEW m \in Nat, m \in T PROVE m + 1 \in T
  <2> HIDE DEF tiled, all
  <2>1. SUFFICES ASSUME m + 1 <= N PROVE all(m + 1)
    OBVIOUS
  <2>11. all(m)
    BY <1>2, <1>14, <2>1
  <2>2. \A j \in 0 .. m : tiled(j)
    BY <2>11 DEF all
  <2>3. PICK k : k = m + 1
    OBVIOUS
  <2>4. k \in 1 .. N /\ k # 0
    BY <2>1, <2>3
  <2>5. ASSUME k >= HalfHour PROVE Tile(h[end - k], end - k, end)
    <3>1. PICK l : l = ChunkLength(k)
      OBVIOUS
    <3>2. l \in 1 .. k /\ l <= MaxChunk /\ l >= HalfHour /\ (k - l = 0 \/ k - l >= HalfHour)
      BY <2>4, <2>5, <3>1, ChunkFacts
    <3>3. k - l \in 0 .. m
      BY <2>3, <2>4, <3>2
    <3>4. Tile(h[end - (k - l)], end - (k - l), end)
      BY <2>2, <3>2, <3>3 DEF tiled
    <3>5. end - (k - l) = end - k + l /\ end - k \in start .. end /\ end - k # end /\ end - (end - k) = k
      BY <1>1, <1>2, <2>4, <3>2
    <3>6. PICK v : v = [start |-> end - k, end |-> end - k + l]
      OBVIOUS
    <3>7. v \in Spans /\ v.start = end - k /\ v.end = end - k + l
      BY <2>4, <3>2, <3>6 DEF Spans
    <3>8. h[end - k] = <<v>> \o h[v.end]
      BY <1>12, <3>1, <3>5, <3>6, <3>7
    <3>9. v.end - v.start \in HalfHour .. MaxChunk /\ v.end <= end
      BY <1>2, <2>4, <3>2, <3>7
    <3>10. Tile(h[v.end], v.end, end)
      BY <3>4, <3>5, <3>7
    <3>11. Tile(<<v>> \o h[v.end], v.start, end)
      BY <3>7, <3>9, <3>10, TileFollows
    <3> QED
      BY <3>7, <3>8, <3>11
  <2>6. tiled(k)
    BY <2>4, <2>5 DEF tiled
  <2>7. \A j \in 0 .. m + 1 : j \in 0 .. m \/ j = k
    BY <2>3
  <2> QED
    BY <2>2, <2>6, <2>7 DEF all
<1> HIDE DEF T
<1>15. N \in T
  BY <1>2, <1>13, <1>14, NaturalsFollow
<1> USE DEF T
<1>16. N \in 0 .. N /\ end - N = start /\ N >= HalfHour
  BY <1>1, <1>2
<1>17. tiled(N)
  <2> HIDE DEF tiled, all
  <2>1. all(N)
    BY <1>15, <1>16
  <2> QED
    BY <1>16, <2>1 DEF all
<1>18. Tile(h[end - N], end - N, end)
  BY <1>16, <1>17
<1> QED
  BY <1>11, <1>16, <1>18

LEMMA DatesFollow ==
    ASSUME NEW a \in Int, NEW b \in Int, a <= b, NEW d \in Nat \ {0}
    PROVE  a \div d <= b \div d
<1>1. PICK p, q : p = a \div d /\ q = b \div d
  OBVIOUS
<1>2. p \in Int /\ d * p <= a /\ a < d * p + d
  BY <1>1, DivisionFacts
<1>3. q \in Int /\ d * q <= b /\ b < d * q + d
  BY <1>1, DivisionFacts
<1>4. ASSUME q < p PROVE FALSE
  <2>1. d * q + d <= d * p
    BY ONLY <1>2, <1>3, <1>4, MultiplesAreApart, d \in Nat \ {0}
  <2>2. d * q \in Int /\ d * p \in Int
    BY <1>2, <1>3
  <2> QED
    BY <1>2, <1>3, <2>1, <2>2
<1> QED
  BY <1>1, <1>2, <1>3, <1>4

\* Hours of one day after those of another.
DaysSoFar(out, hours, n) ==
    /\ \A i \in 1 .. Len(out) : \E k, l \in 1 .. n :
           /\ k <= l /\ DateIn(hours[k]) = DateIn(hours[l])
           /\ out[i].start = hours[k].start /\ out[i].end = hours[l].end
    /\ \A k \in 1 .. n : \E i \in 1 .. Len(out) :
           out[i].start <= hours[k].start /\ hours[k].end <= out[i].end
    /\ \A i, j \in 1 .. Len(out) : i < j => DateIn(out[i]) < DateIn(out[j])
    /\ n > 0 => /\ Len(out) > 0 /\ out[Len(out)].end = hours[n].end
                /\ DateIn(out[Len(out)]) = DateIn(hours[n])

LEMMA InDayFacts ==
    ASSUME NEW hours \in Seq(Spans), AreMerged(hours), NEW n \in 1 .. Len(hours),
           NEW out \in Seq(Spans), DaysSoFar(out, hours, n - 1)
    PROVE  InDay(out, hours[n]) \in Seq(Spans) /\ DaysSoFar(InDay(out, hours[n]), hours, n)
<1>1. PICK N \in Nat : N = Len(hours) /\ DOMAIN hours = 1 .. N /\ \A k \in 1 .. N : hours[k] \in Spans
  BY SequenceFacts
<1>2. PICK L \in Nat : L = Len(out) /\ DOMAIN out = 1 .. L /\ \A i \in 1 .. L : out[i] \in Spans
  BY SequenceFacts
<1>3. \A v \in Spans : v.start \in Int /\ v.end \in Int
  BY DEF Spans
<1>4. /\ \A k \in 1 .. N : hours[k].start \in Int /\ hours[k].end \in Int /\ hours[k].start < hours[k].end
      /\ \A k, l \in 1 .. N : k < l => hours[k].end < hours[l].start
  BY <1>1, <1>3 DEF AreMerged
<1>5. \A i \in 1 .. L : out[i].start \in Int /\ out[i].end \in Int
  BY <1>2, <1>3
<1>6. PICK v : v = hours[n]
  OBVIOUS
<1>7. v \in Spans /\ n \in 1 .. N
  BY <1>1, <1>6
<1>8. ASSUME NEW w \in Spans PROVE DateIn(w) \in Int
  BY <1>3, LimitFacts, DivisionFacts DEF DateIn
<1>9. ASSUME NEW u \in Spans, NEW w \in Spans, u.start = w.start PROVE DateIn(u) = DateIn(w)
  BY <1>9 DEF DateIn
<1>10. n - 1 > 0 <=> L > 0
  <2>1. n - 1 > 0 => L > 0
    BY <1>2 DEF DaysSoFar
  <2>2. ASSUME L > 0 PROVE n - 1 > 0
    <3>1. 1 \in 1 .. L
      BY <2>2
    <3>2. \E k \in 1 .. n - 1 : TRUE
      BY <1>2, <3>1 DEF DaysSoFar
    <3> QED
      BY <1>7, <3>2
  <2> QED
    BY <2>1, <2>2
<1>11. L > 0 => out[L].end = hours[n - 1].end /\ DateIn(out[L]) = DateIn(hours[n - 1])
  BY <1>2, <1>10 DEF DaysSoFar
<1>12. ASSUME NEW i \in 1 .. L
       PROVE  \E k, l \in 1 .. n - 1 :
           /\ k <= l /\ DateIn(hours[k]) = DateIn(hours[l])
           /\ out[i].start = hours[k].start /\ out[i].end = hours[l].end
  BY <1>2 DEF DaysSoFar
<1>13. ASSUME NEW k \in 1 .. n - 1
       PROVE  \E i \in 1 .. L : out[i].start <= hours[k].start /\ hours[k].end <= out[i].end
  BY <1>2 DEF DaysSoFar
<1>14. \A i, j \in 1 .. L : i < j => DateIn(out[i]) < DateIn(out[j])
  BY <1>2 DEF DaysSoFar
<1>15. \A k \in 1 .. n : k \in 1 .. n - 1 \/ k = n
  BY <1>7
<1>16. n \in 1 .. n /\ \A k \in 1 .. n - 1 : k \in 1 .. n /\ k \in 1 .. N /\ k < n
  BY <1>7
<1>17. CASE out # <<>> /\ DateIn(LastOf(out)) = DateIn(v)
  <2>1. PICK new : new = Extend(out, v)
    OBVIOUS
  <2>2. InDay(out, v) = new /\ L > 0 /\ DateIn(out[L]) = DateIn(v)
    BY <1>2, <1>17, <2>1 DEF InDay, LastOf
  <2>3. n - 1 \in 1 .. N /\ out[L].end = hours[n - 1].end /\ hours[n - 1].end < v.start /\ L \in 1 .. L
    BY <1>4, <1>6, <1>7, <1>10, <1>11, <2>2
  <2>4. Later(out[L].end, v.end) = v.end
    <3>1. out[L].end < v.end
      BY <1>4, <1>6, <1>7, <2>3
    <3> QED
      BY <1>3, <1>5, <1>7, <2>3, <3>1 DEF Later
  <2>5. /\ new \in Seq(Spans) /\ Len(new) = L
        /\ \A i \in 1 .. L - 1 : new[i] = out[i]
        /\ new[L].start = out[L].start /\ new[L].end = v.end
    <3>1. /\ Extend(out, v) \in Seq(Spans) /\ Len(Extend(out, v)) = Len(out)
          /\ \A i \in 1 .. Len(out) - 1 : Extend(out, v)[i] = out[i]
          /\ Extend(out, v)[Len(out)].start = out[Len(out)].start
          /\ Extend(out, v)[Len(out)].end = Later(out[Len(out)].end, v.end)
      BY <1>7, <1>17, ExtendFacts
    <3> QED
      BY <1>2, <2>1, <2>4, <3>1
  <2>6. \A i \in 1 .. L : i \in 1 .. L - 1 \/ i = L
    OBVIOUS
  <2>7. \A i \in 1 .. L : new[i] \in Spans /\ new[i].start = out[i].start
    <3>1. \A i \in 1 .. L : new[i] \in Spans
      BY <2>5, SequenceFacts
    <3> QED
      BY <2>5, <2>6, <3>1
  <2>8. \A i \in 1 .. L : DateIn(new[i]) = DateIn(out[i])
    BY <1>2, <1>9, <2>7
  <2>9. ASSUME NEW i \in 1 .. L
        PROVE  \E k, l \in 1 .. n :
           /\ k <= l /\ DateIn(hours[k]) = DateIn(hours[l])
           /\ new[i].start = hours[k].start /\ new[i].end = hours[l].end
    <3>1. PICK k \in 1 .. n - 1, l \in 1 .. n - 1 :
           /\ k <= l /\ DateIn(hours[k]) = DateIn(hours[l])
           /\ out[i].start = hours[k].start /\ out[i].end = hours[l].end
      BY <1>12
    <3>2. CASE i \in 1 .. L - 1
      BY <1>16, <2>5, <3>1, <3>2
    <3>3. CASE i = L
      <4>1. DateIn(out[L]) = DateIn(hours[k])
        BY <1>1, <1>2, <1>9, <1>16, <3>1, <3>3
      <4>2. DateIn(hours[k]) = DateIn(hours[n]) /\ k <= n /\ new[i].end = hours[n].end
        BY <1>6, <1>16, <2>2, <2>5, <3>3, <4>1
      <4> QED
        BY <1>16, <2>7, <3>1, <4>2
    <3> QED
      BY <2>6, <3>2, <3>3
  <2>10. ASSUME NEW k \in 1 .. n
         PROVE  \E i \in 1 .. L : new[i].start <= hours[k].start /\ hours[k].end <= new[i].end
    <3>1. CASE k \in 1 .. n - 1
      <4>1. PICK i \in 1 .. L : out[i].start <= hours[k].start /\ hours[k].end <= out[i].end
        BY <1>13, <3>1
      <4>2. CASE i \in 1 .. L - 1
        BY <2>5, <4>1, <4>2
      <4>3. CASE i = L
        <5>1. new[L].end = v.end /\ out[L].end < v.end
          BY <1>4, <1>6, <1>7, <2>3, <2>5
        <5>2. hours[k].end <= new[L].end
          BY <1>3, <1>4, <1>5, <1>7, <1>16, <2>3, <3>1, <4>1, <4>3, <5>1
        <5> QED
          BY <2>3, <2>7, <4>1, <4>3, <5>2
      <4> QED
        BY <2>6, <4>2, <4>3
    <3>2. CASE k = n
      <4>1. PICK m \in 1 .. n - 1 : out[L].start = hours[m].start
        BY <1>12, <2>3
      <4>2. hours[m].start <= hours[n].start
        <5>1. m \in 1 .. N /\ n \in 1 .. N /\ m < n
          BY <1>7, <1>16
        <5>2. hours[m].start < hours[m].end /\ hours[m].end < hours[n].start
          BY <1>4, <5>1
        <5> QED
          BY <1>4, <5>1, <5>2
      <4>3. new[L].start <= hours[n].start /\ hours[n].end <= new[L].end
        <5>1. new[L].end = hours[n].end /\ hours[n].end \in Int
          BY <1>4, <1>6, <1>7, <2>5
        <5> QED
          BY <2>5, <4>1, <4>2, <5>1
      <4> QED
        BY <2>3, <3>2, <4>3
    <3> QED
      BY <1>15, <3>1, <3>2
  <2>11. \A i, j \in 1 .. L : i < j => DateIn(new[i]) < DateIn(new[j])
    BY <1>14, <2>8
  <2>12. DateIn(new[L]) = DateIn(hours[n]) /\ new[L].end = hours[n].end /\ L > 0
    BY <1>6, <2>2, <2>3, <2>5, <2>8
  <2>13. DaysSoFar(new, hours, n)
    BY ONLY <2>5, <2>9, <2>10, <2>11, <2>12 DEF DaysSoFar
  <2> QED
    BY <1>6, <2>2, <2>5, <2>13
<1>18. CASE ~(out # <<>> /\ DateIn(LastOf(out)) = DateIn(v))
  <2>1. PICK new : new = Append(out, v)
    OBVIOUS
  <2>2. InDay(out, v) = new
    BY <1>18, <2>1 DEF InDay
  <2>3. /\ new \in Seq(Spans) /\ Len(new) = L + 1
        /\ \A i \in 1 .. L : new[i] = out[i]
        /\ new[L + 1] = v
    BY <1>2, <1>7, <2>1, AppendFacts
  <2>4. \A i \in 1 .. L + 1 : i \in 1 .. L \/ i = L + 1
    OBVIOUS
  <2>5. ASSUME NEW i \in 1 .. L PROVE DateIn(out[i]) < DateIn(v)
    <3>1. L > 0 /\ out # <<>> /\ n - 1 \in 1 .. N /\ L \in 1 .. L
      BY <1>2, <1>7, <1>10, <2>5
    <3>2. DateIn(out[L]) = DateIn(hours[n - 1]) /\ DateIn(out[L]) # DateIn(v)
      BY <1>2, <1>11, <1>18, <3>1 DEF LastOf
    <3>3. hours[n - 1].start <= v.start
      <4>1. hours[n - 1].start < hours[n - 1].end /\ hours[n - 1].end < hours[n].start
        BY <1>4, <1>7, <3>1
      <4> QED
        BY <1>4, <1>6, <1>7, <3>1, <4>1
    <3>4. DateIn(hours[n - 1]) <= DateIn(v)
      BY <1>4, <1>6, <1>7, <3>1, <3>3, DatesFollow, LimitFacts DEF DateIn
    <3>5. DateIn(out[i]) = DateIn(out[L]) \/ DateIn(out[i]) < DateIn(out[L])
      BY <1>14, <2>5, <3>1
    <3>6. DateIn(out[i]) \in Int /\ DateIn(out[L]) \in Int /\ DateIn(v) \in Int
      BY <1>2, <1>7, <1>8, <3>1
    <3> QED
      BY <3>2, <3>4, <3>5, <3>6
  <2>6. ASSUME NEW i \in 1 .. L + 1
        PROVE  \E k, l \in 1 .. n :
           /\ k <= l /\ DateIn(hours[k]) = DateIn(hours[l])
           /\ new[i].start = hours[k].start /\ new[i].end = hours[l].end
    <3>1. CASE i \in 1 .. L
      <4>1. PICK k \in 1 .. n - 1, l \in 1 .. n - 1 :
           /\ k <= l /\ DateIn(hours[k]) = DateIn(hours[l])
           /\ out[i].start = hours[k].start /\ out[i].end = hours[l].end
        BY <1>12, <3>1
      <4> QED
        BY <1>16, <2>3, <3>1, <4>1
    <3>2. CASE i = L + 1
      BY <1>6, <1>16, <2>3, <3>2
    <3> QED
      BY <2>4, <3>1, <3>2
  <2>7. ASSUME NEW k \in 1 .. n
        PROVE  \E i \in 1 .. L + 1 : new[i].start <= hours[k].start /\ hours[k].end <= new[i].end
    <3>1. CASE k \in 1 .. n - 1
      <4>1. PICK i \in 1 .. L : out[i].start <= hours[k].start /\ hours[k].end <= out[i].end
        BY <1>13, <3>1
      <4>2. i \in 1 .. L + 1
        OBVIOUS
      <4> QED
        BY <2>3, <4>1, <4>2
    <3>2. CASE k = n
      <4>1. L + 1 \in 1 .. L + 1 /\ new[L + 1].start <= hours[k].start /\ hours[k].end <= new[L + 1].end
        BY <1>4, <1>6, <1>7, <2>3, <3>2
      <4> QED
        BY <4>1
    <3> QED
      BY <1>15, <3>1, <3>2
  <2>8. ASSUME NEW i \in 1 .. L + 1, NEW j \in 1 .. L + 1, i < j PROVE DateIn(new[i]) < DateIn(new[j])
    <3>1. i \in 1 .. L
      BY <2>8
    <3> QED
      BY <1>14, <2>3, <2>4, <2>5, <2>8, <3>1
  <2>9. L + 1 > 0 /\ DateIn(new[L + 1]) = DateIn(hours[n]) /\ new[L + 1].end = hours[n].end
    BY <1>6, <2>3
  <2>10. DaysSoFar(new, hours, n)
    BY ONLY <2>3, <2>6, <2>7, <2>8, <2>9 DEF DaysSoFar
  <2> QED
    BY <1>6, <2>2, <2>3, <2>10
<1> QED
  BY <1>17, <1>18

\* One interval for each date.
LEMMA DaysFacts ==
    ASSUME NEW hours \in Seq(Spans), AreMerged(hours)
    PROVE  DaysOf(hours) \in Seq(Spans) /\ DaysSoFar(DaysOf(hours), hours, Len(hours))
<1>0. PICK N \in Nat : N = Len(hours)
  OBVIOUS
<1> DEFINE S == [n \in 0 .. N |-> {x \in Seq(Spans) : DaysSoFar(x, hours, n)}]
           step == [c \in (1 .. N) \X Seq(Spans) |-> InDay(c[2], hours[c[1]])]
           equation(f) == f = [n \in 0 .. N |-> IF n = 0 THEN <<>> ELSE InDay(f[n - 1], hours[n])]
<1>1. \A n \in 0 .. N : \A x : x \in S[n] <=> x \in Seq(Spans) /\ DaysSoFar(x, hours, n)
  OBVIOUS
<1>2. ASSUME NEW n \in 1 .. N, NEW x \in Seq(Spans)
      PROVE  step[<<n, x>>] = InDay(x, hours[n])
  OBVIOUS
<1> HIDE DEF S, step
<1>3. ASSUME NEW n \in 1 .. N, NEW x \in Seq(Spans), x \in S[n - 1]
      PROVE  (InDay(x, hours[n])) \in S[n]
  <2>1. n - 1 \in 0 .. N /\ n \in 0 .. N /\ n \in 1 .. Len(hours)
    BY <1>0
  <2>2. DaysSoFar(x, hours, n - 1)
    BY <1>1, <1>3, <2>1
  <2>3. InDay(x, hours[n]) \in Seq(Spans) /\ DaysSoFar(InDay(x, hours[n]), hours, n)
    BY <2>1, <2>2, InDayFacts
  <2> QED
    BY <1>1, <2>1, <2>3
<1>4. <<>> \in S[0]
  <2>1. <<>> \in Seq(Spans) /\ Len(<<>>) = 0 /\ 0 \in 0 .. N
    BY <1>0
  <2>2. DaysSoFar(<<>>, hours, 0)
    BY <2>1 DEF DaysSoFar
  <2> QED
    BY <1>1, <2>1, <2>2
<1>5. StepsWithin(N, Seq(Spans), S, <<>>, step)
  <2>1. \A n \in 0 .. N : S[n] \subseteq Seq(Spans)
    BY <1>1
  <2>2. ASSUME NEW n \in 1 .. N, NEW x \in S[n - 1] PROVE step[<<n, x>>] \in S[n]
    <3>1. n - 1 \in 0 .. N
      BY <1>0
    <3>2. x \in Seq(Spans)
      BY <2>1, <3>1
    <3>3. step[<<n, x>>] = InDay(x, hours[n])
      BY ONLY <1>2, <3>2
    <3>4. (InDay(x, hours[n])) \in S[n]
      BY ONLY <1>3, <2>2, <3>2
    <3> QED
      BY ONLY <3>3, <3>4
  <2> QED
    BY <1>4, <2>1, <2>2 DEF StepsWithin
<1>6. PICK f \in [0 .. N -> Seq(Spans)] :
          /\ f[0] = <<>>
          /\ \A n \in 1 .. N : f[n] = step[<<n, f[n - 1]>>]
          /\ \A n \in 0 .. N : f[n] \in S[n]
  <2>1. N \in Nat
    OBVIOUS
  <2>2. PICK D, base : D = Seq(Spans) /\ base = <<>>
    OBVIOUS
  <2>3. StepsWithin(N, D, S, base, step)
    BY ONLY <1>5, <2>2
  <2>4. AreSteps(N, D, S, base, step)
    BY ONLY <2>1, <2>3, StepsDefine
  <2>5. \E f \in [0 .. N -> D] :
          /\ f[0] = base
          /\ \A n \in 1 .. N : f[n] = step[<<n, f[n - 1]>>]
          /\ \A n \in 0 .. N : f[n] \in S[n]
    BY ONLY <2>4 DEF AreSteps
  <2> QED
    BY ONLY <2>2, <2>5
<1>7. ASSUME NEW n \in 0 .. N
      PROVE  f[n] = IF n = 0 THEN <<>> ELSE InDay(f[n - 1], hours[n])
  <2>1. CASE n = 0
    BY <1>6, <2>1
  <2>2. CASE n \in 1 .. N
    <3>1. n - 1 \in 0 .. N
      BY <2>2
    <3> QED
      BY <1>2, <1>6, <2>2, <3>1
  <2>3. n = 0 \/ n \in 1 .. N
    OBVIOUS
  <2> QED
    BY ONLY <2>1, <2>2, <2>3
<1>8. equation(f)
  BY <1>6, <1>7
<1>9. PICK g : g = CHOOSE h : equation(h)
  OBVIOUS
<1>10. equation(g)
  BY <1>8, <1>9
<1>11. DaysOf(hours) = g[N]
  BY <1>0, <1>9 DEF DaysOf
<1>12. g[0] = <<>> /\ \A n \in 1 .. N : g[n] = InDay(g[n - 1], hours[n])
  <2>1. \A n \in 0 .. N : g[n] = IF n = 0 THEN <<>> ELSE InDay(g[n - 1], hours[n])
    BY <1>10
  <2>2. ASSUME NEW n \in 1 .. N PROVE g[n] = InDay(g[n - 1], hours[n])
    <3>1. n \in 0 .. N /\ n # 0
      OBVIOUS
    <3> QED
      BY ONLY <2>1, <3>1
  <2>3. g[0] = <<>>
    BY ONLY <2>1, 0 \in 0 .. N, <1>0
  <2> QED
    BY ONLY <2>2, <2>3
<1>13. \A n \in 0 .. N : g[n] \in S[n]
  <2>1. ASSUME NEW n \in 1 .. N, g[n - 1] \in S[n - 1] PROVE g[n] \in S[n]
    <3>1. n - 1 \in 0 .. N
      BY <1>0
    <3>2. g[n - 1] \in Seq(Spans)
      BY <1>1, <2>1, <3>1
    <3> QED
      BY <1>3, <1>12, <2>1, <3>2
  <2> QED
    BY <1>4, <1>12, <2>1, StepsStay
<1>14. g[N] \in S[N] /\ N \in 0 .. N
  <2>1. N \in 0 .. N
    BY <1>0
  <2> QED
    BY <1>13, <2>1
<1> QED
  BY <1>0, <1>1, <1>11, <1>14

\* What a search is, in the form the proofs use.
LEMMA SearchFacts ==
    ASSUME NEW search, IsSearch(search)
    PROVE  /\ search.working \in Seq(Spans) /\ AreMerged(search.working) /\ search.working # <<>>
           /\ Len(search.working) \in Nat \ {0} /\ DOMAIN search.working = 1 .. Len(search.working)
           /\ search.buffer \in Nat /\ search.duration \in Nat \ {0}
           /\ \A n \in 1 .. Len(search.working) :
                  /\ search.working[n] \in Spans /\ search.working[n].start < search.working[n].end
                  /\ search.working[n].start \in Int /\ search.working[n].end \in Int
           /\ \A n \in 1 .. Len(search.working) :
                  /\ search.working[1].start <= search.working[n].start
                  /\ search.working[n].end <= LastOf(search.working).end
           /\ \A i \in DOMAIN search.people : IsPerson(search.people[i])
           /\ Len(search.people) \in Nat /\ DOMAIN search.people = 1 .. Len(search.people)
<1>1. search.working \in Seq(Spans) /\ AreMerged(search.working) /\ search.working # <<>>
  BY DEF IsSearch, AreMerged, Spans
<1>2. PICK N \in Nat \ {0} : N = Len(search.working) /\ DOMAIN search.working = 1 .. N
  BY <1>1, SequenceFacts, EmptySeq
<1>3. PICK w : w = search.working
  OBVIOUS
<1>4. \A n \in 1 .. N : w[n] \in Spans /\ w[n].start < w[n].end /\ w[n].start \in Int /\ w[n].end \in Int
  <2>1. \A n \in 1 .. N : w[n] \in Spans
    BY <1>1, <1>2, <1>3, SequenceFacts
  <2>2. \A n \in 1 .. N : w[n].start < w[n].end
    BY <1>1, <1>2, <1>3 DEF AreMerged
  <2> QED
    BY <2>1, <2>2 DEF Spans
<1>5. \A m, n \in 1 .. N : m < n => w[m].end < w[n].start
  BY <1>1, <1>2, <1>3 DEF AreMerged
<1>6. 1 \in 1 .. N /\ N \in 1 .. N /\ LastOf(w) = w[N]
  BY <1>2, <1>3 DEF LastOf
<1>7. ASSUME NEW n \in 1 .. N PROVE w[1].start <= w[n].start /\ w[n].end <= LastOf(w).end
  <2>1. n = 1 \/ w[1].end < w[n].start
    BY <1>5, <1>6
  <2>2. n = N \/ w[n].end < w[N].start
    BY <1>5, <1>6
  <2> QED
    BY <1>4, <1>6, <2>1, <2>2
<1>8. ASSUME NEW i \in DOMAIN search.people PROVE IsPerson(search.people[i])
  BY DEF IsSearch, IsPerson, Busy
<1>9. search.buffer \in Nat /\ search.duration \in Nat \ {0} /\ Len(search.people) \in Nat /\ DOMAIN search.people = 1 .. Len(search.people)
  BY DEF IsSearch
<1> QED
  BY <1>1, <1>2, <1>3, <1>4, <1>7, <1>8, <1>9

LEMMA QueryOfFacts ==
    ASSUME NEW search, IsSearch(search), NEW hours \in Spans, hours.start < hours.end
    PROVE  /\ QueryOf(search, hours) \in Spans
           /\ QueryOf(search, hours).start = hours.start - search.buffer
           /\ QueryOf(search, hours).end >= hours.end + search.buffer
           /\ QueryOf(search, hours).end >= hours.start - search.buffer + HalfHour
           /\ \/ QueryOf(search, hours).end = hours.end + search.buffer
              \/ QueryOf(search, hours).end = hours.start - search.buffer + HalfHour
<1>1. search.buffer \in Nat /\ HalfHour \in Nat \ {0} /\ hours.start \in Int /\ hours.end \in Int
  BY SearchFacts, LimitFacts DEF Spans
<1>2. PICK end : end = Later(hours.end + search.buffer, hours.start - search.buffer + HalfHour)
  OBVIOUS
<1>3. QueryOf(search, hours) = [start |-> hours.start - search.buffer, end |-> end]
  BY <1>2 DEF QueryOf
<1>4. /\ end \in Int /\ end >= hours.end + search.buffer /\ end >= hours.start - search.buffer + HalfHour
      /\ end = hours.end + search.buffer \/ end = hours.start - search.buffer + HalfHour
  BY <1>1, <1>2 DEF Later
<1> QED
  BY <1>1, <1>3, <1>4 DEF Spans

\* What the queries of a search cover.
CoversHours(search, queries) ==
    \A n \in 1 .. Len(search.working) :
        \A t \in search.working[n].start - search.buffer .. search.working[n].end + search.buffer - 1 :
            Covers(queries, t)

LEMMA WeeklyFacts ==
    ASSUME NEW search, IsSearch(search), search.weekly
    PROVE  ArePages(WeeklyQueries(search)) /\ CoversHours(search, WeeklyQueries(search))
<1>1. PICK hours : hours = search.working
  OBVIOUS
<1>2. PICK N : N = Len(hours)
  OBVIOUS
<1>3. /\ hours \in Seq(Spans) /\ AreMerged(hours) /\ N \in Nat \ {0} /\ DOMAIN hours = 1 .. N
      /\ \A n \in 1 .. N : /\ hours[n] \in Spans /\ hours[n].start < hours[n].end
                           /\ hours[n].start \in Int /\ hours[n].end \in Int
      /\ search.buffer \in Nat
  BY <1>1, <1>2, SearchFacts
<1>18. \A m, n \in 1 .. N : m < n => hours[m].end < hours[n].start
  BY <1>3 DEF AreMerged
<1>4. PICK days : days = DaysOf(hours)
  OBVIOUS
<1>5. days \in Seq(Spans) /\ DaysSoFar(days, hours, N)
  BY <1>2, <1>3, <1>4, DaysFacts
<1>6. PICK L \in Nat : L = Len(days) /\ DOMAIN days = 1 .. L /\ \A n \in 1 .. L : days[n] \in Spans
  BY <1>5, SequenceFacts
<1>7. PICK pages : pages = [n \in 1 .. L |-> QueryOf(search, days[n])]
  OBVIOUS
<1>8. WeeklyQueries(search) = pages
  BY <1>1, <1>4, <1>6, <1>7 DEF WeeklyQueries
<1>9. PICK B \in Nat, H \in Nat \ {0}, X \in Nat : B = search.buffer /\ H = HalfHour /\ X = MaxChunk
  BY <1>3, LimitFacts
<1>10. ASSUME NEW m \in 1 .. N, NEW n \in 1 .. N
       PROVE  IF DateIn(hours[m]) = DateIn(hours[n])
              THEN QueryOf(search, [start |-> hours[m].start, end |-> hours[n].end]).end <= hours[m].start - B + X
              ELSE m < n => QueryOf(search, hours[m]).end <= hours[n].start - B
  BY <1>1, <1>3, <1>9 DEF IsSearch
<1>11. ASSUME NEW n \in 1 .. L
       PROVE  /\ days[n].start < days[n].end /\ days[n].start \in Int /\ days[n].end \in Int
              /\ pages[n] \in Spans /\ pages[n].start \in Int /\ pages[n].end \in Int
              /\ pages[n].start = days[n].start - B /\ pages[n].end >= days[n].end + B
              /\ pages[n].end >= pages[n].start + H /\ pages[n].end <= pages[n].start + X
              /\ \E k, l \in 1 .. N : /\ k <= l /\ DateIn(hours[k]) = DateIn(hours[l])
                                      /\ DateIn(days[n]) = DateIn(hours[k])
                                      /\ days[n].start = hours[k].start
                                      /\ pages[n].end <= QueryOf(search, hours[l]).end
  <2>1. PICK k \in 1 .. N, l \in 1 .. N : /\ k <= l /\ DateIn(hours[k]) = DateIn(hours[l])
                                          /\ days[n].start = hours[k].start /\ days[n].end = hours[l].end
    BY <1>5, <1>6 DEF DaysSoFar
  <2>2. hours[k].start <= hours[l].start
    <3>1. k = l \/ hours[k].end < hours[l].start
      BY <1>3, <1>18, <2>1
    <3> QED
      BY <1>3, <3>1
  <2>3. days[n].start < days[n].end /\ days[n].start \in Int /\ days[n].end \in Int /\ days[n] \in Spans
    BY <1>3, <1>6, <2>1, <2>2
  <2>4. pages[n] = QueryOf(search, days[n])
    BY <1>7
  <2>5. /\ pages[n] \in Spans /\ pages[n].start = days[n].start - B
        /\ pages[n].end >= days[n].end + B /\ pages[n].end >= days[n].start - B + H
        /\ pages[n].end = days[n].end + B \/ pages[n].end = days[n].start - B + H
    BY <1>9, <2>3, <2>4, QueryOfFacts
  <2>6. pages[n].start \in Int /\ pages[n].end \in Int
    BY <2>5 DEF Spans
  <2>7. days[n] = [start |-> hours[k].start, end |-> hours[l].end]
    BY <2>1, <2>3 DEF Spans
  <2>8. pages[n].end <= pages[n].start + X
    BY <1>10, <2>1, <2>4, <2>5, <2>7
  <2>9. /\ QueryOf(search, hours[l]).end >= hours[l].end + B
        /\ QueryOf(search, hours[l]).end >= hours[l].start - B + H
        /\ QueryOf(search, hours[l]).end \in Int
    BY <1>3, <1>9, QueryOfFacts DEF Spans
  <2>10. pages[n].end <= QueryOf(search, hours[l]).end
    <3>1. PICK e \in Int, s \in Int, d \in Int, z \in Int :
              /\ e = pages[n].end /\ s = hours[l].start /\ d = hours[l].end /\ z = QueryOf(search, hours[l]).end
      BY <1>3, <2>6, <2>9
    <3>2. PICK r \in Int : r = days[n].start
      BY <2>3
    <3>3. r <= s /\ (e = d + B \/ e = r - B + H) /\ z >= d + B /\ z >= s - B + H
      BY <2>1, <2>2, <2>5, <2>9, <3>1, <3>2
    <3>4. e <= z
      BY <3>3
    <3> QED
      BY <3>1, <3>4
  <2>11. DateIn(days[n]) = DateIn(hours[k])
    BY <2>1 DEF DateIn
  <2> QED
    BY <2>1, <2>3, <2>5, <2>6, <2>8, <2>10, <2>11
<1>12. ASSUME NEW m \in 1 .. L, NEW n \in 1 .. L, m < n PROVE pages[m].end <= pages[n].start
  <2>1. PICK k \in 1 .. N, l \in 1 .. N : /\ k <= l /\ DateIn(hours[k]) = DateIn(hours[l])
                                          /\ DateIn(days[m]) = DateIn(hours[k])
                                          /\ pages[m].end <= QueryOf(search, hours[l]).end
    BY <1>11
  <2>2. PICK p \in 1 .. N, q \in 1 .. N : /\ DateIn(days[n]) = DateIn(hours[p]) /\ days[n].start = hours[p].start
    BY <1>11
  <2>3. DateIn(days[m]) < DateIn(days[n])
    BY <1>5, <1>6, <1>12 DEF DaysSoFar
  <2>4. DateIn(hours[l]) < DateIn(hours[p])
    BY <2>1, <2>2, <2>3
  <2>5. \A j \in 1 .. N : DateIn(hours[j]) \in Int
    BY <1>3, LimitFacts, DivisionFacts DEF DateIn
  <2>6. l < p
    <3>1. ASSUME p <= l PROVE FALSE
      <4>1. hours[p].start <= hours[l].start
        <5>1. p = l \/ hours[p].end < hours[l].start
          BY <1>3, <1>18, <3>1
        <5> QED
          BY <1>3, <5>1
      <4>2. DateIn(hours[p]) <= DateIn(hours[l])
        BY <1>3, <4>1, DatesFollow, LimitFacts DEF DateIn
      <4> QED
        BY <2>4, <2>5, <4>2
    <3> QED
      BY <3>1
  <2>7. DateIn(hours[l]) # DateIn(hours[p])
    BY <2>4, <2>5
  <2>8. QueryOf(search, hours[l]).end <= hours[p].start - B
    BY <1>10, <2>6, <2>7
  <2>9. QueryOf(search, hours[l]).end \in Int
    BY <1>3, QueryOfFacts DEF Spans
  <2> QED
    <3>1. PICK e \in Int, s \in Int, z \in Int, r \in Int :
              e = pages[m].end /\ s = pages[n].start /\ z = QueryOf(search, hours[l]).end /\ r = hours[p].start
      BY <1>3, <1>11, <2>9
    <3>2. s = r - B
      BY <1>11, <2>2, <3>1
    <3>3. e <= z /\ z <= r - B
      BY <2>1, <2>8, <3>1
    <3>4. e <= s
      BY <3>2, <3>3
    <3> QED
      BY <3>1, <3>4
<1>13. pages \in Seq(Spans) /\ Len(pages) = L /\ DOMAIN pages = 1 .. L
  BY <1>7, <1>11
<1>14. \A n \in 1 .. L : pages[n].end - pages[n].start \in H .. X
  BY <1>11
<1>15. ArePages(pages)
  BY <1>9, <1>12, <1>13, <1>14 DEF ArePages
<1>16. ASSUME NEW k \in 1 .. N, NEW t \in hours[k].start - B .. hours[k].end + B - 1 PROVE Covers(pages, t)
  <2>1. PICK i \in 1 .. L : days[i].start <= hours[k].start /\ hours[k].end <= days[i].end
    BY <1>5, <1>6 DEF DaysSoFar
  <2>2. At(pages[i], t)
    <3>1. PICK a \in Int, b \in Int, c \in Int, d \in Int :
              a = days[i].start /\ b = days[i].end /\ c = pages[i].start /\ d = pages[i].end
      BY <1>11
    <3>2. c = a - B /\ d >= b + B
      BY <1>11, <3>1
    <3>3. PICK x \in Int, y \in Int : x = hours[k].start /\ y = hours[k].end
      BY <1>3
    <3>4. a <= x /\ y <= b /\ x - B <= t /\ t < y + B /\ t \in Int
      BY <2>1, <3>1, <3>3
    <3>5. c <= t /\ t < d
      BY <3>2, <3>4
    <3> QED
      BY <3>1, <3>5 DEF At
  <2> QED
    BY <1>13, <2>2 DEF Covers, Elements
<1>17. CoversHours(search, pages)
  BY <1>1, <1>2, <1>9, <1>16 DEF CoversHours
<1> QED
  BY <1>8, <1>15, <1>17

LEMMA QueriesFacts ==
    ASSUME NEW search, IsSearch(search)
    PROVE  ArePages(Queries(search)) /\ CoversHours(search, Queries(search))
<1>1. CASE search.weekly
  BY <1>1, WeeklyFacts DEF Queries
<1>2. CASE ~search.weekly
  <2>1. PICK hours : hours = [start |-> search.working[1].start, end |-> LastOf(search.working).end]
    OBVIOUS
  <2>2. PICK N : N = Len(search.working)
    OBVIOUS
  <2>3. /\ N \in Nat \ {0} /\ search.buffer \in Nat
        /\ \A n \in 1 .. N : /\ search.working[n].start \in Int /\ search.working[n].end \in Int
                             /\ search.working[n].start < search.working[n].end
        /\ \A n \in 1 .. N : /\ search.working[1].start <= search.working[n].start
                             /\ search.working[n].end <= LastOf(search.working).end
    BY <2>2, SearchFacts
  <2>4. 1 \in 1 .. N /\ N \in 1 .. N /\ LastOf(search.working) = search.working[N]
    BY <2>2, <2>3 DEF LastOf
  <2>5. /\ hours \in Spans /\ hours.start < hours.end
        /\ hours.start = search.working[1].start /\ hours.end = LastOf(search.working).end
    BY <2>1, <2>3, <2>4 DEF Spans
  <2>6. PICK whole : whole = QueryOf(search, hours)
    OBVIOUS
  <2>7. Queries(search) = SplitChunks(whole.start, whole.end)
    BY <1>2, <2>1, <2>6 DEF Queries
  <2>8. /\ whole \in Spans /\ whole.start = hours.start - search.buffer
        /\ whole.end >= hours.end + search.buffer /\ whole.end >= hours.start - search.buffer + HalfHour
    BY <2>5, <2>6, QueryOfFacts
  <2>9. whole.start \in Int /\ whole.end \in Int /\ whole.end - whole.start >= HalfHour
    BY <2>3, <2>5, <2>8, LimitFacts DEF Spans
  <2>10. Tile(Queries(search), whole.start, whole.end)
    BY <2>7, <2>9, SplitFacts
  <2>11. ASSUME NEW n \in 1 .. N,
                NEW t \in search.working[n].start - search.buffer .. search.working[n].end + search.buffer - 1
         PROVE  Covers(Queries(search), t)
    <3>1. t \in whole.start .. whole.end - 1
      BY <2>3, <2>4, <2>5, <2>8, <2>9
    <3> QED
      BY <2>10, <3>1 DEF Tile
  <2>12. CoversHours(search, Queries(search))
    BY <2>2, <2>11 DEF CoversHours
  <2> QED
    BY <2>10, <2>12 DEF Tile
<1> QED
  BY <1>1, <1>2

(* The record of a participant *)

\* Of queries one after the other, a time is in one at most.
LEMMA PagesAreApart ==
    ASSUME NEW queries, ArePages(queries), NEW m \in 1 .. Len(queries), NEW n \in 1 .. Len(queries),
           NEW t \in Int, At(queries[m], t), At(queries[n], t)
    PROVE  m = n
<1>1. PICK L \in Nat : L = Len(queries) /\ \A k \in 1 .. L : queries[k] \in Spans
  BY SequenceFacts DEF ArePages
<1>2. \A k \in 1 .. L : queries[k].start \in Int /\ queries[k].end \in Int
  BY <1>1 DEF Spans
<1>3. \A k, l \in 1 .. L : k < l => queries[k].end <= queries[l].start
  BY <1>1 DEF ArePages
<1>4. m \in 1 .. L /\ n \in 1 .. L /\ (m < n \/ n < m \/ m = n)
  BY <1>1
<1>5. ASSUME m < n PROVE FALSE
  BY <1>2, <1>3, <1>4, <1>5 DEF At
<1>6. ASSUME n < m PROVE FALSE
  BY <1>2, <1>3, <1>4, <1>6 DEF At
<1> QED
  BY <1>4, <1>5, <1>6

PageIsKnown(answers, n, person) == Answered(answers, n) /\ person.resolved

\* A record shows one status at every time that was asked about, and nothing else.
LEMMA RecordFacts ==
    ASSUME NEW search, IsSearch(search), NEW person, IsPerson(person), NEW answers
    PROVE  /\ Record(search, answers, person) \in Seq(Labelled) /\ AreReal(Record(search, answers, person))
           /\ \A t \in Int : \A status :
                  Shows(Record(search, answers, person), t, status) =>
                      \E n \in 1 .. Len(Queries(search)) :
                          Said(Queries(search)[n], PageIsKnown(answers, n, person), person, t, status)
           /\ \A t \in Int : Covers(Queries(search), t) => \E status :
                  /\ Shows(Record(search, answers, person), t, status)
                  /\ \A other : Shows(Record(search, answers, person), t, other) => other = status
<1>1. PICK queries : queries = Queries(search)
  OBVIOUS
<1>2. ArePages(queries)
  BY <1>1, QueriesFacts
<1>3. queries \in Seq(Spans)
  BY <1>2 DEF ArePages
<1>4. PICK L \in Nat : L = Len(queries) /\ DOMAIN queries = 1 .. L /\ \A n \in 1 .. L : queries[n] \in Spans
  BY <1>3, SequenceFacts
<1>5. ASSUME NEW n \in 1 .. L PROVE queries[n].start < queries[n].end
  <2>1. queries[n].end - queries[n].start \in HalfHour .. MaxChunk
    BY <1>2, <1>4 DEF ArePages
  <2>2. queries[n].start \in Int /\ queries[n].end \in Int
    BY <1>4 DEF Spans
  <2> QED
    BY <2>1, <2>2, LimitFacts
<1>6. PICK pages : pages = [n \in 1 .. L |-> PageIntervals(queries[n], PageIsKnown(answers, n, person), person)]
  OBVIOUS
<1>7. ASSUME NEW n \in 1 .. L
      PROVE  /\ pages[n] \in Seq(Labelled) /\ AreReal(pages[n])
             /\ \A t \in Int : \A status : Shows(pages[n], t, status) =>
                    Said(queries[n], PageIsKnown(answers, n, person), person, t, status)
             /\ \A t \in Int : At(queries[n], t) => \E status :
                    Shows(pages[n], t, status) /\ \A other : Shows(pages[n], t, other) => other = status
  <2>1. PICK known : known = PageIsKnown(answers, n, person)
    OBVIOUS
  <2>2. known \in BOOLEAN
    BY <2>1 DEF PageIsKnown, Answered
  <2>3. pages[n] = PageIntervals(queries[n], known, person)
    BY <1>6, <2>1
  <2> QED
    BY <1>4, <1>5, <2>1, <2>2, <2>3, PageFacts
<1>8. pages \in Seq(Seq(Labelled)) /\ Len(pages) = L
  BY <1>6, <1>7
<1>9. PICK flat : flat = Flat(pages)
  OBVIOUS
<1>10. flat \in Seq(Labelled) /\ Elements(flat) = UNION {Elements(pages[n]) : n \in 1 .. L}
  <2>1. Flat(pages) \in Seq(Labelled) /\ Elements(Flat(pages)) = UNION {Elements(pages[n]) : n \in 1 .. Len(pages)}
    BY <1>8, FlatFacts
  <2> QED
    BY ONLY <1>8, <1>9, <2>1
<1>11. AreReal(flat)
  <2>1. ASSUME NEW k \in 1 .. Len(flat) PROVE flat[k].start < flat[k].end
    <3>1. flat[k] \in Elements(flat)
      BY <1>10, SequenceFacts DEF Elements
    <3>2. PICK n \in 1 .. L : flat[k] \in Elements(pages[n])
      BY <1>10, <3>1
    <3>3. PICK j \in 1 .. Len(pages[n]) : flat[k] = pages[n][j]
      <4>1. DOMAIN pages[n] = 1 .. Len(pages[n])
        BY <1>7, SequenceFacts
      <4> QED
        BY <3>2, <4>1 DEF Elements
    <3> QED
      BY <1>7, <3>3 DEF AreReal
  <2> QED
    BY <2>1 DEF AreReal
<1>12. \A t, status : Shows(flat, t, status) <=> \E n \in 1 .. L : Shows(pages[n], t, status)
  <2>1. \A v : v \in Elements(flat) <=> \E n \in 1 .. L : v \in Elements(pages[n])
    BY <1>10
  <2> QED
    BY <2>1 DEF Shows
<1>13. PICK record : record = MergeStatus(flat)
  OBVIOUS
<1>14. /\ record \in Seq(Labelled) /\ AreReal(record)
       /\ \A t \in Int : \A status : Shows(record, t, status) <=> Shows(flat, t, status)
  BY <1>10, <1>11, <1>13, MergeStatusFacts
<1>15. Record(search, answers, person) = record
  BY <1>1, <1>4, <1>6, <1>9, <1>13 DEF Record, PageIsKnown
<1>16. ASSUME NEW t \in Int, NEW status, Shows(record, t, status)
       PROVE  \E n \in 1 .. L : Said(queries[n], PageIsKnown(answers, n, person), person, t, status)
  BY <1>7, <1>12, <1>14, <1>16
<1>17. ASSUME NEW t \in Int, Covers(queries, t)
       PROVE  \E status : Shows(record, t, status) /\ \A other : Shows(record, t, other) => other = status
  <2>1. PICK n \in 1 .. L : At(queries[n], t)
    BY <1>4, <1>17 DEF Covers, Elements
  <2>2. PICK status : Shows(pages[n], t, status) /\ \A other : Shows(pages[n], t, other) => other = status
    BY <1>7, <2>1
  <2>3. Shows(record, t, status)
    BY <1>12, <1>14, <2>2
  <2>4. ASSUME NEW other, Shows(record, t, other) PROVE other = status
    <3>1. PICK m \in 1 .. L : Shows(pages[m], t, other)
      BY <1>12, <1>14, <2>4
    <3>2. At(queries[m], t)
      BY <1>7, <3>1 DEF Said
    <3>3. m = n
      BY <1>2, <1>4, <2>1, <3>2, PagesAreApart
    <3> QED
      BY <2>2, <3>1, <3>3
  <2> QED
    BY <2>3, <2>4
<1> QED
  BY <1>1, <1>4, <1>14, <1>15, <1>16, <1>17

(* The judgement of a time *)

\* The intervals without their statuses.
LEMMA RangesFacts ==
    ASSUME NEW values \in Seq(Labelled)
    PROVE  /\ Ranges(values) \in Seq(Spans)
           /\ \A t : Covers(Ranges(values), t) <=> Covers(values, t)
<1>1. PICK L \in Nat : L = Len(values) /\ DOMAIN values = 1 .. L /\ \A n \in 1 .. L : values[n] \in Labelled
  BY SequenceFacts
<1>2. PICK ranges : ranges = Ranges(values)
  OBVIOUS
<1>3. ranges = [n \in 1 .. L |-> [start |-> values[n].start, end |-> values[n].end]]
  BY <1>1, <1>2 DEF Ranges
<1>4. \A n \in 1 .. L : /\ ranges[n] \in Spans
                        /\ ranges[n].start = values[n].start /\ ranges[n].end = values[n].end
  BY <1>1, <1>3 DEF Labelled, Spans
<1>5. ranges \in Seq(Spans) /\ DOMAIN ranges = 1 .. L
  BY <1>3, <1>4
<1>6. ASSUME NEW t PROVE Covers(ranges, t) <=> Covers(values, t)
  <2>1. /\ Covers(ranges, t) <=> \E n \in 1 .. L : At(ranges[n], t)
        /\ Covers(values, t) <=> \E n \in 1 .. L : At(values[n], t)
    BY <1>1, <1>5 DEF Covers, Elements
  <2> QED
    BY <1>4, <2>1 DEF At
<1> QED
  BY <1>2, <1>5, <1>6

\* The record shows something acceptable at a time, and nothing else.
IsClear(search, record, t) ==
    /\ \E status : Shows(record, t, status)
    /\ \A status : Shows(record, t, status) => Acceptable(search, status)

\* Nothing is against a time that lies in the working hours of somebody known
\* whose record is clear from its buffer before to its buffer after.
LEMMA ReasonsFacts ==
    ASSUME NEW search, search.buffer \in Nat, NEW person, NEW record \in Seq(Labelled), AreReal(record),
           NEW range \in Spans, range.start < range.end
    PROVE  Reasons(search, person, record, range) = {} <=>
               /\ Contained(range, person.working) /\ person.resolved
               /\ \A t \in range.start - search.buffer .. (range.end + search.buffer) - 1 : IsClear(search, record, t)
<1>1. range.start \in Int /\ range.end \in Int
  BY DEF Spans
<1>2. PICK from, to : from = range.start - search.buffer /\ to = range.end + search.buffer
  OBVIOUS
<1>3. from \in Int /\ to \in Int /\ from < to
  BY <1>1, <1>2
<1>4. PICK padded : padded = [start |-> from, end |-> to]
  OBVIOUS
<1>5. padded \in Spans /\ padded.start = from /\ padded.end = to
  BY <1>3, <1>4 DEF Spans
<1>6. PICK places : places = {n \in DOMAIN record : Intersecting(record[n], padded)}
  OBVIOUS
<1>7. PICK touched : touched = Those(record, places)
  OBVIOUS
<1>8. PICK L \in Nat : L = Len(record) /\ DOMAIN record = 1 .. L /\ \A n \in 1 .. L : record[n] \in Labelled
  BY SequenceFacts
<1>9. touched \in Seq(Labelled) /\ Elements(touched) = {record[n] : n \in (1 .. Len(record)) \cap places}
  BY <1>7, ThoseFacts
<1>10. \A v : v \in Elements(touched) <=> v \in Elements(record) /\ v.start < to /\ from < v.end
  <2>1. \A n \in 1 .. L : n \in places <=> record[n].start < to /\ from < record[n].end
    BY <1>5, <1>6, <1>8 DEF Intersecting
  <2> QED
    BY <1>8, <1>9, <2>1 DEF Elements
<1>11. \A v \in Elements(record) : v.start < v.end /\ v.start \in Int /\ v.end \in Int
  BY <1>8 DEF AreReal, Elements, Labelled
<1>12. PICK unfit : unfit = {touched[i].status : i \in DOMAIN touched}
  OBVIOUS
<1>13. \A status : status \in unfit <=> \E t \in from .. to - 1 : Shows(record, t, status)
  <2>1. \A status : status \in unfit <=> \E v \in Elements(touched) : v.status = status
    BY <1>12 DEF Elements
  <2>2. ASSUME NEW v \in Elements(touched) PROVE \E t \in from .. to - 1 : At(v, t)
    <3>1. v \in Elements(record) /\ v.start < to /\ from < v.end /\ v.start < v.end /\ v.start \in Int /\ v.end \in Int
      BY <1>10, <1>11
    <3>2. CASE v.start <= from
      <4>1. from \in from .. to - 1 /\ At(v, from)
        BY <1>3, <3>1, <3>2 DEF At
      <4> QED
        BY <4>1
    <3>3. CASE ~(v.start <= from)
      <4>1. v.start \in from .. to - 1 /\ At(v, v.start)
        BY <1>3, <3>1, <3>3 DEF At
      <4> QED
        BY <4>1
    <3> QED
      BY <3>2, <3>3
  <2>3. ASSUME NEW t \in from .. to - 1, NEW v \in Elements(record), At(v, t) PROVE v \in Elements(touched)
    BY <1>3, <1>10, <1>11, <2>3 DEF At
  <2>4. \A v : v \in Elements(touched) => v \in Elements(record)
    BY <1>10
  <2> QED
    BY <2>1, <2>2, <2>3, <2>4 DEF Shows
<1>14. PICK ranges, merged : ranges = Ranges(touched) /\ merged = MergeIntervals(ranges)
  OBVIOUS
<1>15. /\ merged \in Seq(Spans) /\ AreMerged(merged)
       /\ \A t \in Int : Covers(merged, t) <=> Covers(touched, t)
  <2>1. ranges \in Seq(Spans) /\ \A t : Covers(ranges, t) <=> Covers(touched, t)
    BY <1>9, <1>14, RangesFacts
  <2> QED
    BY <1>14, <2>1, MergeFacts
<1>16. Contained(padded, merged) <=> \A t \in from .. to - 1 : Covers(merged, t)
  BY <1>3, <1>5, <1>15, ContainedIsCovered
<1>17. ASSUME NEW t \in from .. to - 1 PROVE Covers(merged, t) <=> \E status : Shows(record, t, status)
  <2>1. t \in Int /\ from <= t /\ t < to
    BY <1>3
  <2>2. ASSUME NEW v \in Elements(record), At(v, t) PROVE v \in Elements(touched)
    BY <1>3, <1>10, <1>11, <2>1, <2>2 DEF At
  <2>3. Covers(touched, t) <=> \E v \in Elements(record) : At(v, t)
    BY <1>10, <2>2 DEF Covers
  <2>4. (\E status : Shows(record, t, status)) <=> \E v \in Elements(record) : At(v, t)
    BY DEF Shows
  <2> QED
    BY <1>15, <2>1, <2>3, <2>4
<1>18. Contained(padded, merged) <=> \A t \in from .. to - 1 : \E status : Shows(record, t, status)
  BY ONLY <1>16, <1>17
<1>19. (\A u \in unfit : Acceptable(search, u)) <=>
           \A t \in from .. to - 1 : \A status : Shows(record, t, status) => Acceptable(search, status)
  BY ONLY <1>13
<1>20. Reasons(search, person, record, range) =
           (IF Contained(range, person.working) THEN {} ELSE {"outsideWorkingHours"})
           \union {IF s = "noData" THEN "unknown" ELSE s : s \in {u \in unfit : ~Acceptable(search, u)}}
           \union (IF person.resolved /\ Contained(padded, merged) THEN {} ELSE {"unknown"})
  BY <1>2, <1>4, <1>6, <1>7, <1>12, <1>14 DEF Reasons
<1>21. Reasons(search, person, record, range) = {} <=>
           /\ Contained(range, person.working)
           /\ \A u \in unfit : Acceptable(search, u)
           /\ person.resolved /\ Contained(padded, merged)
  <2>1. PICK a, b, c :
            /\ a = IF Contained(range, person.working) THEN {} ELSE {"outsideWorkingHours"}
            /\ b = {IF s = "noData" THEN "unknown" ELSE s : s \in {u \in unfit : ~Acceptable(search, u)}}
            /\ c = IF person.resolved /\ Contained(padded, merged) THEN {} ELSE {"unknown"}
    OBVIOUS
  <2>2. Reasons(search, person, record, range) = a \union b \union c
    BY ONLY <1>20, <2>1
  <2>3. a = {} <=> Contained(range, person.working)
    BY ONLY <2>1
  <2>4. c = {} <=> person.resolved /\ Contained(padded, merged)
    BY ONLY <2>1
  <2>5. b = {} <=> \A u \in unfit : Acceptable(search, u)
    <3>1. PICK d : d = {u \in unfit : ~Acceptable(search, u)}
      OBVIOUS
    <3>2. \A s \in d : (IF s = "noData" THEN "unknown" ELSE s) \in b
      BY ONLY <2>1, <3>1
    <3>3. b # {} => d # {}
      BY ONLY <2>1, <3>1
    <3>4. d = {} <=> \A u \in unfit : Acceptable(search, u)
      BY ONLY <3>1
    <3> QED
      BY ONLY <3>2, <3>3, <3>4
  <2>6. a \union b \union c = {} <=> a = {} /\ b = {} /\ c = {}
    OBVIOUS
  <2> QED
    BY ONLY <2>2, <2>3, <2>4, <2>5, <2>6
<1>22. (\A t \in from .. to - 1 : IsClear(search, record, t)) <=>
           /\ \A t \in from .. to - 1 : \E status : Shows(record, t, status)
           /\ \A t \in from .. to - 1 : \A status : Shows(record, t, status) => Acceptable(search, status)
  BY ONLY DEF IsClear
<1>23. Reasons(search, person, record, range) = {} <=>
           /\ Contained(range, person.working) /\ person.resolved
           /\ \A t \in from .. to - 1 : IsClear(search, record, t)
  BY ONLY <1>18, <1>19, <1>21, <1>22
<1>24. from .. to - 1 = range.start - search.buffer .. (range.end + search.buffer) - 1
  BY <1>1, <1>2, <1>3, search.buffer \in Nat
<1>25. (\A t \in from .. to - 1 : IsClear(search, record, t)) <=>
           \A t \in range.start - search.buffer .. (range.end + search.buffer) - 1 : IsClear(search, record, t)
  BY ONLY <1>24
<1> QED
  BY ONLY <1>23, <1>25

\* What a suggestion, or the lack of one, is said to mean.
IsKnown(search, answers, range) ==
    \A t \in range.start - search.buffer .. (range.end + search.buffer) - 1 : \E n \in DOMAIN Queries(search) :
        Queries(search)[n].start <= t /\ t < Queries(search)[n].end /\ Answered(answers, n)

IsDisturbed(search, p, start, end) ==
    \E b \in p.busy : b.start < end /\ start < b.end /\ ~Acceptable(search, b.status)

Suits(search, answers, p, range) ==
    /\ IsKnown(search, answers, range)
    /\ ~IsDisturbed(search, p, range.start - search.buffer, range.end + search.buffer)

DoesNotSuit(search, answers, p, range) ==
    \/ ~IsKnown(search, answers, range)
    \/ ~Contained(range, p.working) \/ ~p.resolved
    \/ IsDisturbed(search, p, range.start - search.buffer - HalfHour, range.end + search.buffer + HalfHour)

\* A time in the working hours was asked about, with its buffers.
LEMMA PaddedIsCovered ==
    ASSUME NEW search, IsSearch(search), NEW range \in Spans, Contained(range, search.working),
           NEW t \in range.start - search.buffer .. (range.end + search.buffer) - 1
    PROVE  Covers(Queries(search), t)
<1>1. PICK n \in 1 .. Len(search.working) :
          search.working[n].start <= range.start /\ range.end <= search.working[n].end
  BY SearchFacts DEF Contained
<1>2. /\ search.working[n].start \in Int /\ search.working[n].end \in Int /\ search.buffer \in Nat
      /\ range.start \in Int /\ range.end \in Int
  BY SearchFacts DEF Spans
<1>3. t \in search.working[n].start - search.buffer .. search.working[n].end + search.buffer - 1
  <2>1. PICK a \in Int, b \in Int, s \in Int, e \in Int, B \in Nat :
            /\ a = search.working[n].start /\ b = search.working[n].end /\ B = search.buffer
            /\ s = range.start /\ e = range.end
    BY <1>2
  <2>2. a <= s /\ e <= b /\ t \in s - B .. (e + B) - 1
    BY <1>1, <2>1
  <2>3. t \in a - B .. b + B - 1
    BY ONLY <2>2, a \in Int, b \in Int, s \in Int, e \in Int, B \in Nat
  <2> QED
    BY ONLY <2>1, <2>3
<1> QED
  BY <1>3, QueriesFacts DEF CoversHours

\* The judgement of one participant.
LEMMA JudgedForOne ==
    ASSUME NEW search, IsSearch(search), NEW i \in DOMAIN search.people, NEW answers,
           NEW range \in Spans, range.start < range.end, Contained(range, search.working)
    PROVE  IF Reasons(search, search.people[i], Record(search, answers, search.people[i]), range) = {}
           THEN Suits(search, answers, search.people[i], range)
           ELSE DoesNotSuit(search, answers, search.people[i], range)
<1>1. PICK person : person = search.people[i]
  OBVIOUS
<1>2. IsPerson(person) /\ search.buffer \in Nat
  BY <1>1, SearchFacts
<1>3. PICK queries, record : queries = Queries(search) /\ record = Record(search, answers, person)
  OBVIOUS
<1>4. /\ record \in Seq(Labelled) /\ AreReal(record)
      /\ \A t \in Int : \A status : Shows(record, t, status) =>
             \E n \in 1 .. Len(queries) : Said(queries[n], PageIsKnown(answers, n, person), person, t, status)
      /\ \A t \in Int : Covers(queries, t) => \E status :
             Shows(record, t, status) /\ \A other : Shows(record, t, other) => other = status
  BY <1>2, <1>3, RecordFacts
<1>5. ArePages(queries)
  BY <1>3, QueriesFacts
<1>6. DOMAIN queries = 1 .. Len(queries)
  BY <1>5, SequenceFacts DEF ArePages
<1>7. range.start \in Int /\ range.end \in Int
  BY DEF Spans
<1>8. PICK from, to : from = range.start - search.buffer /\ to = range.end + search.buffer
  OBVIOUS
<1>9. from \in Int /\ to \in Int /\ from < to
  BY <1>2, <1>7, <1>8
<1>10. PICK H \in Nat \ {0} : H = HalfHour
  BY LimitFacts
<1>11. \A b \in person.busy : b.start \in Int /\ b.end \in Int /\ b.start < b.end /\ b.status \in {"tentative", "busy"}
  BY <1>2 DEF IsPerson, Busy
<1>12. \A t \in from .. to - 1 : t \in Int /\ Covers(queries, t)
  <2>1. ASSUME NEW t \in from .. to - 1 PROVE Covers(Queries(search), t)
    <3>1. t \in range.start - search.buffer .. (range.end + search.buffer) - 1
      BY <1>2, <1>7, <1>8, <1>9
    <3> QED
      BY <3>1, PaddedIsCovered
  <2> QED
    BY <1>3, <1>9, <2>1
<1>13. from .. to - 1 = range.start - search.buffer .. (range.end + search.buffer) - 1
  BY <1>2, <1>7, <1>8, <1>9
<1>14. IsKnown(search, answers, range) <=>
           \A t \in from .. to - 1 : \E n \in 1 .. Len(queries) : At(queries[n], t) /\ Answered(answers, n)
  BY ONLY <1>3, <1>6, <1>13 DEF IsKnown, At
<1>15. Reasons(search, person, record, range) = {} <=>
           /\ Contained(range, person.working) /\ person.resolved
           /\ \A t \in from .. to - 1 : IsClear(search, record, t)
  <2>1. Reasons(search, person, record, range) = {} <=>
           /\ Contained(range, person.working) /\ person.resolved
           /\ \A t \in range.start - search.buffer .. (range.end + search.buffer) - 1 : IsClear(search, record, t)
    BY <1>2, <1>4, ReasonsFacts
  <2> QED
    BY ONLY <1>13, <2>1
<1>16. ~Acceptable(search, "noData") /\ ~Acceptable(search, "busy")
  BY DEF Acceptable
<1>17. ASSUME \A t \in from .. to - 1 : IsClear(search, record, t)
       PROVE  /\ IsKnown(search, answers, range) /\ ~IsDisturbed(search, person, from, to)
  <2>1. ASSUME NEW t \in from .. to - 1
        PROVE  \E status : /\ Acceptable(search, status)
                           /\ \E n \in 1 .. Len(queries) :
                                  Said(queries[n], PageIsKnown(answers, n, person), person, t, status)
    <3>1. PICK status : Shows(record, t, status) /\ Acceptable(search, status)
      BY <1>17 DEF IsClear
    <3>2. t \in Int
      BY <1>9
    <3> QED
      BY <1>4, <3>1, <3>2
  <2>2. ASSUME NEW t \in from .. to - 1
        PROVE  \E status : /\ Acceptable(search, status) /\ IsTrueOf(person, t, status)
                           /\ \E n \in 1 .. Len(queries) : At(queries[n], t) /\ Answered(answers, n)
    <3>4. PICK status :
              /\ Acceptable(search, status)
              /\ \E n \in 1 .. Len(queries) :
                     Said(queries[n], PageIsKnown(answers, n, person), person, t, status)
      BY <2>1
    <3>1. PICK n \in 1 .. Len(queries) :
              /\ Acceptable(search, status)
              /\ Said(queries[n], PageIsKnown(answers, n, person), person, t, status)
      BY <3>4
    <3>2. status # "noData"
      BY <1>16, <3>1
    <3>3. PageIsKnown(answers, n, person) /\ At(queries[n], t) /\ IsTrueOf(person, t, status)
      BY <3>1, <3>2 DEF Said
    <3> QED
      BY <3>1, <3>3 DEF PageIsKnown
  <2>3. IsKnown(search, answers, range)
    BY <1>14, <2>2
  <2>4. ASSUME NEW b \in person.busy, b.start < to, from < b.end PROVE Acceptable(search, b.status)
    <3>1. PICK t \in from .. to - 1 : At(b, t)
      <4>1. CASE b.start <= from
        <5>1. from \in from .. to - 1 /\ At(b, from)
          BY <1>9, <1>11, <2>4, <4>1 DEF At
        <5> QED
          BY <5>1
      <4>2. CASE ~(b.start <= from)
        <5>1. b.start \in from .. to - 1 /\ At(b, b.start)
          BY <1>9, <1>11, <2>4, <4>2 DEF At
        <5> QED
          BY <5>1
      <4> QED
        BY <4>1, <4>2
    <3>2. PICK status : Acceptable(search, status) /\ IsTrueOf(person, t, status)
      BY <2>2
    <3>3. status # "free" /\ status # "busy" /\ status \in {"free", "tentative", "busy"}
      BY <1>16, <3>1, <3>2 DEF IsTrueOf
    <3>4. b.status = "tentative"
      BY <3>1, <3>2, <3>3 DEF IsTrueOf
    <3> QED
      BY <3>2, <3>3, <3>4
  <2> QED
    BY <2>3, <2>4 DEF IsDisturbed
<1>18. ASSUME NEW t \in from .. to - 1, ~IsClear(search, record, t), IsKnown(search, answers, range), person.resolved
       PROVE  IsDisturbed(search, person, from - H, to + H)
  <2>1. t \in Int /\ Covers(queries, t)
    BY <1>12
  <2>2. \E status : Shows(record, t, status)
    BY <1>4, <2>1
  <2>3. PICK status : Shows(record, t, status) /\ ~Acceptable(search, status)
    BY <1>18, <2>2 DEF IsClear
  <2>4. PICK n \in 1 .. Len(queries) : Said(queries[n], PageIsKnown(answers, n, person), person, t, status)
    BY <1>4, <2>1, <2>3
  <2>5. PICK m \in 1 .. Len(queries) : At(queries[m], t) /\ Answered(answers, m)
    BY <1>14, <1>18
  <2>6. m = n
    BY <1>5, <2>1, <2>4, <2>5, PagesAreApart DEF Said
  <2>7. PageIsKnown(answers, n, person)
    BY <1>18, <2>5, <2>6 DEF PageIsKnown
  <2>8. IsTrueOf(person, t, status)
    BY <2>4, <2>7 DEF Said
  <2>9. status # "free"
    BY <2>3 DEF Acceptable
  <2>10. PICK b \in person.busy : b.status = status /\ b.start < t + 1 + H /\ t - H < b.end
    BY <1>10, <2>8, <2>9 DEF IsTrueOf
  <2>11. b.start < to + H /\ from - H < b.end
    BY <1>9, <1>11, <2>10
  <2> QED
    BY <2>3, <2>10, <2>11 DEF IsDisturbed
<1>19. CASE Reasons(search, person, record, range) = {}
  <2>1. Suits(search, answers, person, range)
    BY <1>8, <1>15, <1>17, <1>19 DEF Suits
  <2> QED
    BY <1>1, <1>3, <1>19, <2>1
<1>20. CASE Reasons(search, person, record, range) # {}
  <2>1. DoesNotSuit(search, answers, person, range)
    <3>1. SUFFICES ASSUME IsKnown(search, answers, range), Contained(range, person.working), person.resolved
                   PROVE  IsDisturbed(search, person, range.start - search.buffer - HalfHour,
                                      range.end + search.buffer + HalfHour)
      BY DEF DoesNotSuit
    <3>2. PICK t \in from .. to - 1 : ~IsClear(search, record, t)
      BY <1>15, <1>20, <3>1
    <3>3. IsDisturbed(search, person, from - H, to + H)
      BY <1>18, <3>1, <3>2
    <3> QED
      BY <1>8, <1>10, <3>3
  <2> QED
    BY <1>1, <1>3, <1>20, <2>1
<1> QED
  BY <1>19, <1>20

RecordsOf(search, answers) == [i \in DOMAIN search.people |-> Record(search, answers, search.people[i])]

RequiredOf(search) ==
    {search.people[i] : i \in {j \in DOMAIN search.people : search.people[j].role = "required"}}

\* Where nobody who is required has a conflict, nothing is in their way; where
\* somebody has one, something is near.
LEMMA JudgedForAll ==
    ASSUME NEW search, IsSearch(search), NEW answers,
           NEW range \in Spans, range.start < range.end, Contained(range, search.working)
    PROVE  IF Conflicts(search, RecordsOf(search, answers), range, "required") = {}
           THEN \A p \in RequiredOf(search) : Suits(search, answers, p, range)
           ELSE \E p \in RequiredOf(search) : DoesNotSuit(search, answers, p, range)
<1>1. PICK records : records = RecordsOf(search, answers)
  OBVIOUS
<1>2. \A i \in DOMAIN search.people : records[i] = Record(search, answers, search.people[i])
  BY <1>1 DEF RecordsOf
<1>3. Conflicts(search, records, range, "required") = {} <=>
          \A i \in DOMAIN search.people : search.people[i].role = "required" =>
              Reasons(search, search.people[i], Record(search, answers, search.people[i]), range) = {}
  BY <1>2 DEF Conflicts
<1>4. \A p : p \in RequiredOf(search) <=>
          \E i \in DOMAIN search.people : search.people[i].role = "required" /\ p = search.people[i]
  BY DEF RequiredOf
<1>5. CASE Conflicts(search, records, range, "required") = {}
  <2>1. ASSUME NEW p \in RequiredOf(search) PROVE Suits(search, answers, p, range)
    <3>1. PICK i \in DOMAIN search.people : search.people[i].role = "required" /\ p = search.people[i]
      BY <1>4
    <3>2. Reasons(search, search.people[i], Record(search, answers, search.people[i]), range) = {}
      BY <1>3, <1>5, <3>1
    <3>3. Suits(search, answers, search.people[i], range)
      BY <3>2, JudgedForOne
    <3> QED
      BY <3>1, <3>3
  <2> QED
    BY <1>1, <1>5, <2>1
<1>6. CASE Conflicts(search, records, range, "required") # {}
  <2>1. PICK i \in DOMAIN search.people : /\ search.people[i].role = "required"
            /\ Reasons(search, search.people[i], Record(search, answers, search.people[i]), range) # {}
    BY <1>3, <1>6
  <2>2. search.people[i] \in RequiredOf(search) /\ DoesNotSuit(search, answers, search.people[i], range)
    BY <1>4, <2>1, JudgedForOne
  <2> QED
    BY <1>1, <1>6, <2>2
<1> QED
  BY <1>5, <1>6

(* The windows *)

UsableTime(search, person, record) ==
    Those(record, {n \in DOMAIN record : person.resolved /\ Acceptable(search, record[n].status)})
FreeTime(search, person, record) == MergeIntervals(Ranges(UsableTime(search, person, record)))
ErodedTime(search, free) == Real([n \in DOMAIN free |-> Erode(search, free[n])])

LEMMA FreeTimeFacts ==
    ASSUME NEW search, NEW person, NEW record \in Seq(Labelled)
    PROVE  /\ FreeTime(search, person, record) \in Seq(Spans) /\ AreMerged(FreeTime(search, person, record))
           /\ \A t \in Int : Covers(FreeTime(search, person, record), t) <=>
                  person.resolved /\ \E status : Shows(record, t, status) /\ Acceptable(search, status)
<1>1. PICK places : places = {n \in DOMAIN record : person.resolved /\ Acceptable(search, record[n].status)}
  OBVIOUS
<1>2. PICK usable : usable = Those(record, places)
  OBVIOUS
<1>3. usable \in Seq(Labelled) /\ Elements(usable) = {record[n] : n \in (1 .. Len(record)) \cap places}
  BY <1>2, ThoseFacts
<1>4. DOMAIN record = 1 .. Len(record)
  BY SequenceFacts
<1>5. \A v : v \in Elements(usable) <=> v \in Elements(record) /\ person.resolved /\ Acceptable(search, v.status)
  BY <1>1, <1>3, <1>4 DEF Elements
<1>6. PICK ranges, free : ranges = Ranges(usable) /\ free = MergeIntervals(ranges)
  OBVIOUS
<1>7. ranges \in Seq(Spans) /\ \A t : Covers(ranges, t) <=> Covers(usable, t)
  BY <1>3, <1>6, RangesFacts
<1>8. free \in Seq(Spans) /\ AreMerged(free) /\ \A t \in Int : Covers(free, t) <=> Covers(ranges, t)
  BY <1>6, <1>7, MergeFacts
<1>9. FreeTime(search, person, record) = free
  BY <1>1, <1>2, <1>6 DEF FreeTime, UsableTime
<1>10. \A t : Covers(usable, t) <=>
           person.resolved /\ \E status : Shows(record, t, status) /\ Acceptable(search, status)
  BY <1>5 DEF Covers, Shows
<1> QED
  BY <1>7, <1>8, <1>9, <1>10

\* A range lies in the free time without the buffers if it lies in the free time
\* with them.
LEMMA ErodedTimeFacts ==
    ASSUME NEW search, search.buffer \in Nat, NEW free \in Seq(Spans), AreMerged(free),
           NEW range \in Spans, range.start < range.end
    PROVE  /\ ErodedTime(search, free) \in Seq(Spans)
           /\ (\A t \in range.start .. range.end - 1 : Covers(ErodedTime(search, free), t)) <=>
              (\A t \in range.start - search.buffer .. (range.end + search.buffer) - 1 : Covers(free, t))
<1>1. PICK L \in Nat : L = Len(free) /\ DOMAIN free = 1 .. L /\ \A n \in 1 .. L : free[n] \in Spans
  BY SequenceFacts
<1>2. PICK B \in Nat : B = search.buffer
  OBVIOUS
<1>3. /\ \A n \in 1 .. L : free[n].start \in Int /\ free[n].end \in Int /\ free[n].start < free[n].end
      /\ \A m, n \in 1 .. L : m < n => free[m].end < free[n].start
  BY <1>1 DEF AreMerged, Spans
<1>4. PICK less : less = [n \in 1 .. L |-> Erode(search, free[n])]
  OBVIOUS
<1>5. \A n \in 1 .. L : /\ less[n] \in Spans
                        /\ less[n].start = free[n].start + B /\ less[n].end = free[n].end - B
  <2>1. ASSUME NEW n \in 1 .. L
        PROVE  /\ less[n] \in Spans
               /\ less[n].start = free[n].start + B /\ less[n].end = free[n].end - B
    <3>1. less[n] = [start |-> free[n].start + B, end |-> free[n].end - B]
      BY <1>2, <1>4 DEF Erode
    <3>2. free[n].start + B \in Int /\ free[n].end - B \in Int
      BY <1>3
    <3> QED
      BY <3>1, <3>2 DEF Spans
  <2> QED
    BY <2>1
<1>6. less \in Seq(Spans) /\ DOMAIN less = 1 .. L
  BY <1>4, <1>5
<1>7. PICK eroded : eroded = Real(less)
  OBVIOUS
<1>8. eroded \in Seq(Spans) /\ Elements(eroded) = {v \in Elements(less) : v.start < v.end}
  BY <1>6, <1>7, RealFacts
<1>9. ErodedTime(search, free) = eroded
  BY <1>1, <1>4, <1>7 DEF ErodedTime
<1>10. ASSUME NEW t \in Int
       PROVE  Covers(eroded, t) <=> \E n \in 1 .. L : free[n].start + B <= t /\ t < free[n].end - B
  <2>1. Covers(eroded, t) <=> \E n \in 1 .. L : less[n].start < less[n].end /\ At(less[n], t)
    BY <1>6, <1>8 DEF Covers, Elements
  <2>2. \A n \in 1 .. L : At(less[n], t) <=> free[n].start + B <= t /\ t < free[n].end - B
    BY <1>5 DEF At
  <2>3. \A n \in 1 .. L : At(less[n], t) => less[n].start < less[n].end
    <3>1. \A n \in 1 .. L : less[n].start \in Int /\ less[n].end \in Int
      BY <1>5 DEF Spans
    <3> QED
      BY <3>1 DEF At
  <2> QED
    BY <2>1, <2>2, <2>3
<1>11. PICK s \in Int, e \in Int : s = range.start /\ e = range.end /\ s < e
  BY DEF Spans
<1>12. PICK padded : padded = [start |-> s - B, end |-> e + B]
  OBVIOUS
<1>13. padded \in Spans /\ padded.start = s - B /\ padded.end = e + B /\ padded.start < padded.end
  BY <1>11, <1>12 DEF Spans
<1>14. (\A t \in s - B .. e + B - 1 : Covers(free, t)) <=>
           \E n \in 1 .. L : free[n].start <= s - B /\ e + B <= free[n].end
  <2>1. Contained(padded, free) <=> \A t \in padded.start .. padded.end - 1 : Covers(free, t)
    BY <1>13, ContainedIsCovered
  <2>2. Contained(padded, free) <=> \E n \in 1 .. L : free[n].start <= s - B /\ e + B <= free[n].end
    BY <1>1, <1>13 DEF Contained
  <2> QED
    BY <1>13, <2>1, <2>2
<1>15. ASSUME NEW n \in 1 .. L, free[n].start <= s - B, e + B <= free[n].end, NEW t \in s .. e - 1
       PROVE  Covers(eroded, t)
  <2>1. free[n].start + B <= t /\ t < free[n].end - B /\ t \in Int
    <3>1. PICK a \in Int, b \in Int : a = free[n].start /\ b = free[n].end
      BY <1>3
    <3>2. a <= s - B /\ e + B <= b /\ s <= t /\ t < e /\ t \in Int
      BY <1>11, <1>15, <3>1
    <3>3. a + B <= t /\ t < b - B
      BY <3>2
    <3> QED
      BY <3>1, <3>2, <3>3
  <2> QED
    BY <1>10, <2>1
<1>16. ASSUME \A t \in s .. e - 1 : Covers(eroded, t)
       PROVE  \E n \in 1 .. L : free[n].start <= s - B /\ e + B <= free[n].end
  <2>1. s \in s .. e - 1
    BY <1>11
  <2>2. PICK n \in 1 .. L : free[n].start + B <= s /\ s < free[n].end - B
    BY <1>10, <1>16, <2>1
  <2>3. ASSUME free[n].end - B < e PROVE FALSE
    <3>0. PICK t : t = free[n].end - B
      OBVIOUS
    <3>1. t \in s .. e - 1 /\ t = free[n].end - B
      <4>1. free[n].end \in Int
        BY <1>3
      <4> QED
        BY ONLY <1>11, <2>2, <2>3, <3>0, <4>1, B \in Nat
    <3>2. PICK m \in 1 .. L : free[m].start + B <= t /\ t < free[m].end - B
      <4>1. t \in Int /\ Covers(eroded, t)
        BY <1>11, <1>16, <3>1
      <4> QED
        BY <1>10, <4>1
    <3>3. m = n \/ free[m].end < free[n].start \/ free[n].end < free[m].start
      <4>1. m = n \/ m < n \/ n < m
        OBVIOUS
      <4> QED
        BY <1>3, <4>1
    <3>4. PICK a \in Int, b \in Int, c \in Int, d \in Int :
              a = free[n].start /\ b = free[n].end /\ c = free[m].start /\ d = free[m].end
      BY <1>3
    <3>5. t = b - B /\ c + B <= t /\ t < d - B /\ a < b /\ c < d
      BY <1>3, <3>1, <3>2, <3>4
    <3>6. m = n \/ d < a \/ b < c
      BY <3>3, <3>4
    <3>7. m = n => b = d
      BY <3>4
    <3> QED
      BY <3>5, <3>6, <3>7
  <2>4. PICK a \in Int, b \in Int : a = free[n].start /\ b = free[n].end
    BY <1>3
  <2>5. a + B <= s /\ ~(b - B < e)
    BY <2>2, <2>3, <2>4
  <2>6. a <= s - B /\ e + B <= b
    BY ONLY <2>5, s \in Int, e \in Int, a \in Int, b \in Int, B \in Nat
  <2> QED
    BY ONLY <2>4, <2>6, n \in 1 .. L
<1>17. (\A t \in s .. e - 1 : Covers(eroded, t)) <=> (\A t \in s - B .. e + B - 1 : Covers(free, t))
  BY <1>14, <1>15, <1>16
<1> QED
  BY <1>2, <1>8, <1>9, <1>11, <1>17

TimeOf(search, person, record) ==
    IntersectAll(<<ErodedTime(search, FreeTime(search, person, record)), person.working>>)

\* The time that suits one participant is that without a reason against it.
LEMMA TimeOfFacts ==
    ASSUME NEW search, IsSearch(search), NEW i \in DOMAIN search.people, NEW answers,
           NEW range \in Spans, range.start < range.end, Contained(range, search.working),
           NEW person, person = search.people[i], NEW record, record = Record(search, answers, person)
    PROVE  /\ TimeOf(search, person, record) \in Seq(Spans) /\ AreMerged(TimeOf(search, person, record))
           /\ (\A t \in range.start .. range.end - 1 : Covers(TimeOf(search, person, record), t)) <=>
              Reasons(search, person, record, range) = {}
<1>1. IsPerson(person) /\ search.buffer \in Nat
  BY SearchFacts
<1>2. person.working \in Seq(Spans) /\ AreMerged(person.working)
  BY <1>1 DEF IsPerson, AreMerged, Spans
<1>3. /\ record \in Seq(Labelled) /\ AreReal(record)
      /\ \A t \in Int : Covers(Queries(search), t) => \E status :
             Shows(record, t, status) /\ \A other : Shows(record, t, other) => other = status
  BY <1>1, RecordFacts
<1>4. PICK free : free = FreeTime(search, person, record)
  OBVIOUS
<1>5. /\ free \in Seq(Spans) /\ AreMerged(free)
      /\ \A t \in Int : Covers(free, t) <=>
             person.resolved /\ \E status : Shows(record, t, status) /\ Acceptable(search, status)
  BY <1>3, <1>4, FreeTimeFacts
<1>6. PICK eroded : eroded = ErodedTime(search, free)
  OBVIOUS
<1>7. PICK padding : padding = range.start - search.buffer .. (range.end + search.buffer) - 1
  OBVIOUS
<1>8. /\ eroded \in Seq(Spans)
      /\ (\A t \in range.start .. range.end - 1 : Covers(eroded, t)) <=> \A t \in padding : Covers(free, t)
  <2>1. /\ ErodedTime(search, free) \in Seq(Spans)
        /\ (\A t \in range.start .. range.end - 1 : Covers(ErodedTime(search, free), t)) <=>
           (\A t \in range.start - search.buffer .. (range.end + search.buffer) - 1 : Covers(free, t))
    BY <1>1, <1>5, ErodedTimeFacts
  <2> QED
    BY ONLY <1>6, <1>7, <2>1
<1>9. range.start \in Int /\ range.end \in Int
  BY DEF Spans
<1>10. range.start \in padding /\ padding \subseteq Int
  BY <1>1, <1>7, <1>9
<1>11. ASSUME NEW t \in padding
       PROVE  Covers(free, t) <=> person.resolved /\ IsClear(search, record, t)
  <2>1. Covers(Queries(search), t)
    BY <1>7, PaddedIsCovered
  <2>2. t \in Int
    BY <1>10
  <2>3. PICK status : Shows(record, t, status) /\ \A other : Shows(record, t, other) => other = status
    BY <1>3, <2>1, <2>2
  <2>4. IsClear(search, record, t) <=> Acceptable(search, status)
    BY <2>3 DEF IsClear
  <2>5. (\E other : Shows(record, t, other) /\ Acceptable(search, other)) <=> Acceptable(search, status)
    BY <2>3
  <2> QED
    BY <1>5, <2>2, <2>4, <2>5
<1>12. PICK groups : groups = <<eroded, person.working>>
  OBVIOUS
<1>13. /\ groups \in Seq(Seq(Spans)) /\ Len(groups) = 2 /\ groups[1] = eroded /\ groups[2] = person.working
  BY <1>2, <1>8, <1>12
<1>14. PICK common : common = IntersectAll(groups)
  OBVIOUS
<1>15. /\ common \in Seq(Spans) /\ AreMerged(common)
       /\ \A t \in Int : Covers(common, t) <=> \A k \in 1 .. 2 : Covers(groups[k], t)
  <2>1. /\ IntersectAll(groups) \in Seq(Spans) /\ AreMerged(IntersectAll(groups))
        /\ \A t \in Int : Covers(IntersectAll(groups), t) <=> \A k \in 1 .. Len(groups) : Covers(groups[k], t)
    <3>1. Len(groups) >= 1 /\ Len(groups) >= 2
      BY <1>13
    <3> QED
      BY ONLY <1>13, <3>1, IntersectAllFacts
  <2> QED
    BY ONLY <1>13, <1>14, <2>1
<1>16. \A t \in Int : Covers(common, t) <=> Covers(eroded, t) /\ Covers(person.working, t)
  <2>1. 1 .. 2 = {1, 2}
    OBVIOUS
  <2> QED
    BY <1>13, <1>15, <2>1
<1>17. \A t \in range.start .. range.end - 1 : t \in Int
  BY <1>9
<1>18. (\A t \in range.start .. range.end - 1 : Covers(common, t)) <=>
           /\ \A t \in range.start .. range.end - 1 : Covers(eroded, t)
           /\ \A t \in range.start .. range.end - 1 : Covers(person.working, t)
  BY ONLY <1>16, <1>17
<1>19. Contained(range, person.working) <=> \A t \in range.start .. range.end - 1 : Covers(person.working, t)
  BY <1>2, ContainedIsCovered
<1>20. (\A t \in padding : Covers(free, t)) <=> person.resolved /\ \A t \in padding : IsClear(search, record, t)
  BY ONLY <1>10, <1>11
<1>21. Reasons(search, person, record, range) = {} <=>
           /\ Contained(range, person.working) /\ person.resolved
           /\ \A t \in padding : IsClear(search, record, t)
  <2>1. Reasons(search, person, record, range) = {} <=>
           /\ Contained(range, person.working) /\ person.resolved
           /\ \A t \in range.start - search.buffer .. (range.end + search.buffer) - 1 : IsClear(search, record, t)
    BY <1>1, <1>3, ReasonsFacts
  <2> QED
    BY ONLY <1>7, <2>1
<1>22. TimeOf(search, person, record) = common
  BY <1>4, <1>6, <1>12, <1>14 DEF TimeOf
<1>23. (\A t \in range.start .. range.end - 1 : Covers(common, t)) <=> Reasons(search, person, record, range) = {}
  BY ONLY <1>8, <1>18, <1>19, <1>20, <1>21
<1> QED
  BY ONLY <1>15, <1>22, <1>23

\* A candidate lies in a window if nothing is against it for anybody.
LEMMA WindowsFacts ==
    ASSUME NEW search, IsSearch(search), NEW answers,
           NEW range \in Spans, range.end = range.start + search.duration, Contained(range, search.working)
    PROVE  Contained(range, Windows(search, RecordsOf(search, answers))) <=>
               \A i \in DOMAIN search.people :
                   Reasons(search, search.people[i], RecordsOf(search, answers)[i], range) = {}
<1>1. PICK records : records = RecordsOf(search, answers)
  OBVIOUS
<1>2. PICK P \in Nat : P = Len(search.people) /\ DOMAIN search.people = 1 .. P
  BY SearchFacts
<1>3. \A i \in 1 .. P : records[i] = Record(search, answers, search.people[i])
  BY <1>1, <1>2 DEF RecordsOf
<1>4. search.duration \in Nat \ {0} /\ range.start \in Int /\ range.end \in Int
  BY SearchFacts DEF Spans
<1>5. range.start < range.end
  BY <1>4
<1>6. PICK parts : parts = [i \in 1 .. P |-> TimeOf(search, search.people[i], records[i])]
  OBVIOUS
<1>7. ASSUME NEW i \in 1 .. P
      PROVE  /\ parts[i] \in Seq(Spans)
             /\ (\A t \in range.start .. range.end - 1 : Covers(parts[i], t)) <=>
                Reasons(search, search.people[i], records[i], range) = {}
  <2>1. PICK person, record : person = search.people[i] /\ record = Record(search, answers, person)
    OBVIOUS
  <2>2. i \in DOMAIN search.people
    BY <1>2
  <2>3. /\ TimeOf(search, person, record) \in Seq(Spans)
        /\ (\A t \in range.start .. range.end - 1 : Covers(TimeOf(search, person, record), t)) <=>
              Reasons(search, person, record, range) = {}
    BY <1>5, <2>1, <2>2, TimeOfFacts
  <2>4. parts[i] = TimeOf(search, person, record) /\ records[i] = record
    BY <1>3, <1>6, <2>1
  <2> QED
    BY ONLY <2>1, <2>3, <2>4
<1>8. PICK groups : groups = <<search.working>> \o parts
  OBVIOUS
<1>9. /\ groups \in Seq(Seq(Spans)) /\ Len(groups) = P + 1
      /\ groups[1] = search.working /\ \A i \in 1 .. P : groups[i + 1] = parts[i]
  <2>1. parts \in Seq(Seq(Spans)) /\ Len(parts) = P
    BY <1>6, <1>7
  <2>2. PICK one : one = <<search.working>>
    OBVIOUS
  <2>3. one \in Seq(Seq(Spans)) /\ Len(one) = 1 /\ one[1] = search.working
    BY <2>2, SearchFacts
  <2>4. groups = one \o parts
    BY <1>8, <2>2
  <2>5. PICK D : D = Seq(Spans)
    OBVIOUS
  <2>6. one \in Seq(D) /\ parts \in Seq(D)
    BY <2>1, <2>3, <2>5
  <2>7. one \o parts \in Seq(D) /\ Len(one \o parts) = 1 + P
    BY ONLY <2>1, <2>3, <2>6, ConcatFacts
  <2>8. (one \o parts)[1] = one[1] /\ \A i \in 1 .. P : (one \o parts)[i + 1] = parts[i]
    <3>1. PICK w : w = search.working
      OBVIOUS
    <3>2. w \in D /\ one = <<w>> /\ Len(parts) = P /\ parts \in Seq(D)
      BY <2>1, <2>2, <2>5, <2>6, <3>1, SearchFacts
    <3>3. (<<w>> \o parts)[1] = w /\ \A i \in 1 .. P : (<<w>> \o parts)[i + 1] = parts[i]
      BY ONLY <3>2, P \in Nat
    <3> QED
      BY <2>3, <3>1, <3>2, <3>3
  <2> QED
    BY <2>3, <2>4, <2>5, <2>7, <2>8
<1>10. PICK common : common = IntersectAll(groups)
  OBVIOUS
<1>11. /\ common \in Seq(Spans) /\ AreMerged(common)
       /\ \A t \in Int : Covers(common, t) <=> \A k \in 1 .. P + 1 : Covers(groups[k], t)
  <2>1. AreMerged(groups[1])
    BY <1>9, SearchFacts
  <2>2. Len(groups) >= 1
    BY <1>9
  <2>3. /\ IntersectAll(groups) \in Seq(Spans) /\ AreMerged(IntersectAll(groups))
        /\ \A t \in Int : Covers(IntersectAll(groups), t) <=> \A k \in 1 .. Len(groups) : Covers(groups[k], t)
    BY <1>9, <2>1, <2>2, IntersectAllFacts
  <2> QED
    BY ONLY <1>9, <1>10, <2>3
<1>12. \A t \in Int : Covers(common, t) <=> Covers(search.working, t) /\ \A i \in 1 .. P : Covers(parts[i], t)
  <2>1. \A k \in 1 .. P + 1 : k = 1 \/ k - 1 \in 1 .. P
    OBVIOUS
  <2>2. \A k \in 1 .. P + 1 : k = 1 \/ groups[k] = parts[k - 1]
    <3>1. ASSUME NEW k \in 1 .. P + 1, k # 1 PROVE groups[k] = parts[k - 1]
      <4>1. k - 1 \in 1 .. P /\ (k - 1) + 1 = k
        BY <3>1
      <4> QED
        BY <1>9, <4>1
    <3> QED
      BY <3>1
  <2>3. 1 \in 1 .. P + 1 /\ \A i \in 1 .. P : i + 1 \in 1 .. P + 1
    OBVIOUS
  <2>4. ASSUME NEW t \in Int, Covers(search.working, t), \A i \in 1 .. P : Covers(parts[i], t)
        PROVE  \A k \in 1 .. P + 1 : Covers(groups[k], t)
    BY <1>9, <2>1, <2>2, <2>4
  <2>5. ASSUME NEW t \in Int, \A k \in 1 .. P + 1 : Covers(groups[k], t)
        PROVE  Covers(search.working, t) /\ \A i \in 1 .. P : Covers(parts[i], t)
    BY <1>9, <2>3, <2>5
  <2> QED
    BY <1>11, <2>4, <2>5
<1>13. \A t \in range.start .. range.end - 1 : t \in Int /\ Covers(search.working, t)
  <2>1. \A t \in range.start .. range.end - 1 : Covers(search.working, t)
    BY <1>5, SearchFacts, ContainedIsCovered
  <2> QED
    BY <1>4, <2>1
<1>14. Contained(range, common) <=> \A t \in range.start .. range.end - 1 : Covers(common, t)
  BY <1>5, <1>11, ContainedIsCovered
<1>15. Contained(range, common) <=> \A i \in 1 .. P : \A t \in range.start .. range.end - 1 : Covers(parts[i], t)
  BY ONLY <1>12, <1>13, <1>14
<1>16. PICK windows : windows = Windows(search, records)
  OBVIOUS
<1>17. windows = Those(common, {n \in DOMAIN common : common[n].end - common[n].start >= search.duration})
  <2>1. [i \in DOMAIN search.people |-> TimeOf(search, search.people[i], records[i])] = parts
    BY <1>2, <1>6
  <2> QED
    BY <1>8, <1>10, <1>16, <2>1 DEF Windows, TimeOf, ErodedTime, FreeTime, UsableTime
<1>18. Contained(range, windows) <=> Contained(range, common)
  <2>1. PICK places : places = {n \in DOMAIN common : common[n].end - common[n].start >= search.duration}
    OBVIOUS
  <2>2. windows = Those(common, places)
    BY <1>17, <2>1
  <2>3. windows \in Seq(Spans) /\ Elements(windows) = {common[n] : n \in (1 .. Len(common)) \cap places}
    BY <1>11, <2>2, ThoseFacts
  <2>4. DOMAIN common = 1 .. Len(common) /\ \A n \in 1 .. Len(common) : common[n] \in Spans
    BY <1>11, SequenceFacts
  <2>5. \A s : Contained(range, s) <=> \E v \in Elements(s) : v.start <= range.start /\ range.end <= v.end
    BY DEF Contained, Elements
  <2>6. \A v \in Spans : v.start <= range.start /\ range.end <= v.end => v.end - v.start >= search.duration
    <3>1. \A v \in Spans : v.start \in Int /\ v.end \in Int
      BY DEF Spans
    <3> QED
      BY <1>4, <3>1
  <2>7. \A v : v \in Elements(windows) <=> v \in Elements(common) /\ v.end - v.start >= search.duration
    BY <2>1, <2>3, <2>4 DEF Elements
  <2>8. \A v \in Elements(common) : v \in Spans
    BY <2>4 DEF Elements
  <2> QED
    BY ONLY <2>5, <2>6, <2>7, <2>8
<1>19. Contained(range, windows) <=>
           \A i \in 1 .. P : Reasons(search, search.people[i], records[i], range) = {}
  BY ONLY <1>7, <1>15, <1>18
<1> QED
  BY ONLY <1>1, <1>2, <1>16, <1>19

(* The answers to a search *)

FitsRequired(search, answers, range) ==
    /\ IsKnown(search, answers, range)
    /\ \A p \in RequiredOf(search) :
           ~IsDisturbed(search, p, range.start - search.buffer, range.end + search.buffer)

UnfitForRequired(search, answers, range) ==
    \/ ~IsKnown(search, answers, range)
    \/ \E p \in RequiredOf(search) :
           \/ ~Contained(range, p.working) \/ ~p.resolved
           \/ IsDisturbed(search, p, range.start - search.buffer - HalfHour, range.end + search.buffer + HalfHour)

LEMMA JudgedRight ==
    ASSUME NEW search, IsSearch(search), NEW answers,
           NEW range \in Spans, range.start < range.end, Contained(range, search.working)
    PROVE  IF Conflicts(search, RecordsOf(search, answers), range, "required") = {}
           THEN FitsRequired(search, answers, range) ELSE UnfitForRequired(search, answers, range)
<1>1. PICK required : required \in RequiredOf(search)
  <2>1. PICK i \in DOMAIN search.people : search.people[i].role = "required"
    BY DEF IsSearch
  <2>2. search.people[i] \in RequiredOf(search)
    BY <2>1 DEF RequiredOf
  <2> QED
    BY <2>2
<1>2. IF Conflicts(search, RecordsOf(search, answers), range, "required") = {}
      THEN \A p \in RequiredOf(search) : Suits(search, answers, p, range)
      ELSE \E p \in RequiredOf(search) : DoesNotSuit(search, answers, p, range)
  BY JudgedForAll
<1>3. CASE Conflicts(search, RecordsOf(search, answers), range, "required") = {}
  <2>1. \A p \in RequiredOf(search) : Suits(search, answers, p, range)
    BY <1>2, <1>3
  <2>2. FitsRequired(search, answers, range)
    BY <1>1, <2>1 DEF Suits, FitsRequired
  <2> QED
    BY <1>3, <2>2
<1>4. CASE Conflicts(search, RecordsOf(search, answers), range, "required") # {}
  <2>1. PICK p \in RequiredOf(search) : DoesNotSuit(search, answers, p, range)
    BY <1>2, <1>4
  <2>2. UnfitForRequired(search, answers, range)
    BY <2>1 DEF DoesNotSuit, UnfitForRequired
  <2> QED
    BY <1>4, <2>2
<1> QED
  BY <1>3, <1>4

\* A candidate is as long as the meeting and lies in the working hours.
LEMMA CandidateFacts ==
    ASSUME NEW search, IsSearch(search), NEW range \in Candidates(search)
    PROVE  /\ range \in Spans /\ range.start < range.end /\ range.end = range.start + search.duration
           /\ Contained(range, search.working)
<1>1. Contained(range, search.working)
  BY DEF Candidates
<1>2. PICK w \in {search.working[i] : i \in DOMAIN search.working} :
          \E t \in w.start .. w.end : range = [start |-> t, end |-> t + search.duration]
  BY DEF Candidates
<1>3. PICK t : t \in w.start .. w.end /\ range = [start |-> t, end |-> t + search.duration]
  BY <1>2
<1>4. w.start \in Int /\ w.end \in Int /\ search.duration \in Nat \ {0}
  BY <1>2, SearchFacts
<1>5. t \in Int
  BY <1>3, <1>4
<1> QED
  BY <1>1, <1>3, <1>4, <1>5 DEF Spans

\* Everybody is required or optional.
LEMMA SuitsEveryone ==
    ASSUME NEW search, IsSearch(search), NEW records, NEW range
    PROVE  /\ Conflicts(search, records, range, "required") = {}
           /\ Conflicts(search, records, range, "optional") = {}
           <=> \A i \in DOMAIN search.people : Reasons(search, search.people[i], records[i], range) = {}
<1>1. \A i \in DOMAIN search.people : search.people[i].role \in {"required", "optional"}
  BY DEF IsSearch
<1> QED
  BY <1>1 DEF Conflicts

\* The answers to a search whose working hours are apart.
LEMMA SuggestionsAreExact ==
    ASSUME NEW search, IsSearch(search), NEW answers, NEW records, records = RecordsOf(search, answers),
           NEW range \in Candidates(search)
    PROVE  /\ IF range \in Suggestions(search, records)
              THEN FitsRequired(search, answers, range) ELSE UnfitForRequired(search, answers, range)
           /\ (/\ range \in Suggestions(search, records)
               /\ Conflicts(search, records, range, "optional") = {})
              <=> Contained(range, Windows(search, records))
<1>1. /\ range \in Spans /\ range.start < range.end /\ range.end = range.start + search.duration
      /\ Contained(range, search.working)
  BY CandidateFacts
<1>2. range \in Suggestions(search, records) <=> Conflicts(search, records, range, "required") = {}
  BY DEF Suggestions
<1>3. IF Conflicts(search, records, range, "required") = {}
      THEN FitsRequired(search, answers, range) ELSE UnfitForRequired(search, answers, range)
  BY <1>1, JudgedRight
<1>4. Contained(range, Windows(search, records)) <=>
          \A i \in DOMAIN search.people : Reasons(search, search.people[i], records[i], range) = {}
  BY <1>1, WindowsFacts
<1>5. /\ Conflicts(search, records, range, "required") = {}
      /\ Conflicts(search, records, range, "optional") = {}
      <=> \A i \in DOMAIN search.people : Reasons(search, search.people[i], records[i], range) = {}
  BY SuitsEveryone
<1> QED
  BY ONLY <1>2, <1>3, <1>4, <1>5

\* The answers to a weekly search.
LEMMA PatternsAreExact ==
    ASSUME NEW search, IsSearch(search), NEW answers, NEW records, records = RecordsOf(search, answers),
           NEW p \in Patterns(search, records), NEW date \in Dates(search), NEW range,
           range = [start |-> date * DayLength + p.time, end |-> date * DayLength + p.time + search.duration]
    PROVE  IF date \in p.dates
           THEN FitsRequired(search, answers, range) ELSE UnfitForRequired(search, answers, range)
<1>1. PICK times : times = {c.start % DayLength : c \in Candidates(search)}
  OBVIOUS
<1> DEFINE at(d, time) == [start |-> d * DayLength + time, end |-> d * DayLength + time + search.duration]
           suited(t) == {d \in Dates(search) : Conflicts(search, records, at(d, t), "required") = {}}
<1>2. PICK t \in times : /\ \A d \in Dates(search) : Contained(at(d, t), search.working)
                         /\ p = [time |-> t, dates |-> suited(t)]
  BY <1>1 DEF Patterns
<1>3. p.time = t /\ p.dates = suited(t)
  BY <1>2
<1>4. range = at(date, t)
  BY <1>3
<1>5. Contained(range, search.working)
  BY <1>2, <1>4
<1>6. date \in p.dates <=> Conflicts(search, records, range, "required") = {}
  BY <1>3, <1>4
<1>7. t \in Int /\ date \in Int /\ DayLength \in Nat \ {0} /\ search.duration \in Nat \ {0}
  <2>1. PICK c \in Candidates(search) : t = c.start % DayLength
    BY <1>1, <1>2
  <2>2. c.start \in Int
    BY CandidateFacts DEF Spans
  <2>3. PICK k \in DOMAIN search.working : date = DateIn(search.working[k])
    BY DEF Dates
  <2>4. date \in Int
    BY <2>3, SearchFacts, LimitFacts, DivisionFacts DEF DateIn
  <2> QED
    BY <2>1, <2>2, <2>4, LimitFacts, SearchFacts
<1>8. range \in Spans /\ range.start < range.end
  <2>1. PICK s \in Int : s = date * DayLength + t
    BY <1>7
  <2>2. range = [start |-> s, end |-> s + search.duration]
    BY <1>4, <2>1
  <2> QED
    BY <1>7, <2>1, <2>2 DEF Spans
<1>9. IF Conflicts(search, records, range, "required") = {}
      THEN FitsRequired(search, answers, range) ELSE UnfitForRequired(search, answers, range)
  BY <1>5, <1>8, JudgedRight
<1> QED
  BY ONLY <1>6, <1>9

\* The question and the answer after AskSlots.
LEMMA SlotsAnswered ==
    ASSUME IsSearch(question.search), AskSlots
    PROVE  question'.is = "slots" /\ SlotsAreRight(question'.search, question'.answers, answer')
<1>1. PICK search : search = question.search
  OBVIOUS
<1>2. PICK answers, records :
          /\ records = [i \in DOMAIN search.people |-> Record(search, answers, search.people[i])]
          /\ question' = [is |-> "slots", search |-> search, answers |-> answers]
          /\ answer' = IF Unanswered(search, answers) THEN Nothing
                       ELSE IF search.weekly THEN [patterns |-> Patterns(search, records)]
                       ELSE [records |-> records, suggestions |-> Suggestions(search, records),
                             windows |-> Windows(search, records)]
  BY <1>1 DEF AskSlots
<1>3. question'.search = search /\ question'.answers = answers /\ IsSearch(search)
  BY <1>1, <1>2
<1>4. records = RecordsOf(search, answers)
  BY <1>2 DEF RecordsOf
<1>5. \A n \in DOMAIN Queries(search) :
          Queries(search)[n].end - Queries(search)[n].start \in HalfHour .. MaxChunk
  <2>1. ArePages(Queries(search))
    BY <1>3, QueriesFacts
  <2>2. DOMAIN Queries(search) = 1 .. Len(Queries(search))
    BY <2>1, SequenceFacts DEF ArePages
  <2> QED
    BY <2>1, <2>2 DEF ArePages
<1>6. ASSUME answer' # Nothing, ~search.weekly, NEW range \in Candidates(search)
      PROVE  /\ IF range \in answer'.suggestions
                THEN FitsRequired(search, answers, range) ELSE UnfitForRequired(search, answers, range)
             /\ (/\ range \in answer'.suggestions
                 /\ Conflicts(search, answer'.records, range, "optional") = {})
                <=> Contained(range, answer'.windows)
  <2>1. answer' = [records |-> records, suggestions |-> Suggestions(search, records),
                   windows |-> Windows(search, records)]
    BY <1>2, <1>6
  <2>2. /\ answer'.records = records /\ answer'.suggestions = Suggestions(search, records)
        /\ answer'.windows = Windows(search, records)
    BY <2>1
  <2>3. /\ IF range \in Suggestions(search, records)
           THEN FitsRequired(search, answers, range) ELSE UnfitForRequired(search, answers, range)
        /\ (/\ range \in Suggestions(search, records)
            /\ Conflicts(search, records, range, "optional") = {})
           <=> Contained(range, Windows(search, records))
    BY ONLY <1>3, <1>4, <1>6, SuggestionsAreExact
  <2> QED
    BY ONLY <2>2, <2>3
<1>7. ASSUME answer' # Nothing, search.weekly, NEW p \in answer'.patterns, NEW date \in Dates(search), NEW range,
             range = [start |-> date * DayLength + p.time, end |-> date * DayLength + p.time + search.duration]
      PROVE  IF date \in p.dates
             THEN FitsRequired(search, answers, range) ELSE UnfitForRequired(search, answers, range)
  <2>1. answer' = [patterns |-> Patterns(search, records)]
    BY <1>2, <1>7
  <2>2. p \in Patterns(search, records)
    BY <2>1
  <2> QED
    BY ONLY <1>3, <1>4, <1>7, <2>2, PatternsAreExact
<1> DEFINE queries == Queries(search)
           from(range) == range.start - search.buffer
           to(range) == range.end + search.buffer
           disturbed(p, start, end) == \E b \in p.busy :
               b.start < end /\ start < b.end /\ ~Acceptable(search, b.status)
           known(range) == \A t \in from(range) .. to(range) - 1 : \E n \in DOMAIN queries :
               queries[n].start <= t /\ t < queries[n].end /\ Answered(answers, n)
           required == {search.people[i] : i \in {j \in DOMAIN search.people : search.people[j].role = "required"}}
           fits(range) == known(range) /\ \A p \in required : ~disturbed(p, from(range), to(range))
           unfit(range) ==
               \/ ~known(range)
               \/ \E p \in required : \/ ~Contained(range, p.working) \/ ~p.resolved
                                      \/ disturbed(p, from(range) - HalfHour, to(range) + HalfHour)
           weekly(p, date) == [start |-> date * DayLength + p.time,
                               end |-> date * DayLength + p.time + search.duration]
           suitsAll(range) == /\ range \in answer'.suggestions
                              /\ Conflicts(search, answer'.records, range, "optional") = {}
<1>13. required = RequiredOf(search)
  BY DEF RequiredOf
<1>14. \A p, start, end : disturbed(p, start, end) <=> IsDisturbed(search, p, start, end)
  BY DEF IsDisturbed
<1>15. ASSUME NEW range PROVE known(range) <=> IsKnown(search, answers, range)
  BY DEF IsKnown
<1> HIDE DEF required, disturbed, known
<1>8. \A range : fits(range) <=> FitsRequired(search, answers, range)
  BY ONLY <1>13, <1>14, <1>15 DEF fits, from, to, FitsRequired
<1>9. \A range : unfit(range) <=> UnfitForRequired(search, answers, range)
  BY ONLY <1>13, <1>14, <1>15 DEF unfit, from, to, UnfitForRequired
<1> HIDE DEF fits, unfit
<1>10. ASSUME answer' # Nothing, ~search.weekly, NEW range \in Candidates(search)
       PROVE  /\ IF range \in answer'.suggestions THEN fits(range) ELSE unfit(range)
              /\ suitsAll(range) <=> Contained(range, answer'.windows)
  <2>3. suitsAll(range) <=> Contained(range, answer'.windows)
    BY <1>6, <1>10
  <2>4. IF range \in answer'.suggestions THEN fits(range) ELSE unfit(range)
    BY <1>6, <1>8, <1>9, <1>10
  <2> QED
    BY ONLY <2>3, <2>4
<1>11. ASSUME answer' # Nothing, search.weekly, NEW p \in answer'.patterns, NEW date \in Dates(search)
       PROVE  IF date \in p.dates THEN fits(weekly(p, date)) ELSE unfit(weekly(p, date))
  <2>1. PICK range : range = weekly(p, date)
    OBVIOUS
  <2>2. IF date \in p.dates
        THEN FitsRequired(search, answers, range) ELSE UnfitForRequired(search, answers, range)
    BY <1>7, <1>11, <2>1
  <2> QED
    BY ONLY <1>8, <1>9, <2>1, <2>2
<1>12. /\ \A n \in DOMAIN queries : queries[n].end - queries[n].start \in HalfHour .. MaxChunk
       /\ answer' # Nothing /\ ~search.weekly =>
              \A range \in Candidates(search) :
                  /\ IF range \in answer'.suggestions THEN fits(range) ELSE unfit(range)
                  /\ suitsAll(range) <=> Contained(range, answer'.windows)
       /\ answer' # Nothing /\ search.weekly =>
              \A p \in answer'.patterns, date \in Dates(search) :
                  IF date \in p.dates THEN fits(weekly(p, date)) ELSE unfit(weekly(p, date))
  BY ONLY <1>5, <1>10, <1>11
<1>16. SlotsAreRight(search, answers, answer')
  BY ONLY <1>12 DEF SlotsAreRight, queries, from, to, disturbed, known, required, fits, unfit, weekly, suitsAll
<1> QED
  BY ONLY <1>2, <1>3, <1>16

(* Availability *)

\* What is shown is clipped to the working hours.
LEMMA ClipFacts ==
    ASSUME NEW values \in Seq(Labelled), NEW working \in Seq(Spans)
    PROVE  /\ Clip(values, working) \in Seq(Labelled) /\ AreReal(Clip(values, working))
           /\ \A t \in Int : \A status :
                  Shows(Clip(values, working), t, status) <=> Shows(values, t, status) /\ Covers(working, t)
<1>1. PICK L \in Nat, R \in Nat :
          /\ L = Len(values) /\ DOMAIN values = 1 .. L /\ \A i \in 1 .. L : values[i] \in Labelled
          /\ R = Len(working) /\ DOMAIN working = 1 .. R /\ \A j \in 1 .. R : working[j] \in Spans
  BY SequenceFacts
<1>2. /\ \A w \in Spans : w.start \in Int /\ w.end \in Int
      /\ \A w \in Labelled : w.start \in Int /\ w.end \in Int /\ w.status \in Statuses
  BY DEF Spans, Labelled
<1>3. PICK cell :
          cell = [i \in 1 .. L |-> [j \in 1 .. R |-> WithStatus(Intersect(values[i], working[j]), values[i].status)]]
  OBVIOUS
<1>4. ASSUME NEW v \in Labelled, NEW w \in Spans, NEW u, u = WithStatus(Intersect(v, w), v.status)
      PROVE  u \in Labelled /\ u.status = v.status /\ \A t \in Int : At(u, t) <=> At(v, t) /\ At(w, t)
  <2>1. PICK start, end : start = Later(v.start, w.start) /\ end = Sooner(v.end, w.end)
    OBVIOUS
  <2>2. /\ start \in Int /\ end \in Int
        /\ \A t \in Int : start <= t <=> v.start <= t /\ w.start <= t
        /\ \A t \in Int : t < end <=> t < v.end /\ t < w.end
    BY <1>2, <2>1 DEF Later, Sooner
  <2>3. u = [start |-> start, end |-> end, status |-> v.status]
    BY <1>4, <2>1 DEF Intersect, WithStatus
  <2>4. u \in Labelled /\ u.start = start /\ u.end = end /\ u.status = v.status
    BY <1>2, <2>2, <2>3 DEF Labelled
  <2> QED
    BY <2>2, <2>4 DEF At
<1>5. /\ cell \in Seq(Seq(Labelled)) /\ Len(cell) = L /\ \A i \in 1 .. L : Len(cell[i]) = R
      /\ \A i \in 1 .. L : \A j \in 1 .. R :
             cell[i][j] = WithStatus(Intersect(values[i], working[j]), values[i].status)
  <2>1. ASSUME NEW i \in 1 .. L
        PROVE  /\ cell[i] \in Seq(Labelled) /\ Len(cell[i]) = R
               /\ \A j \in 1 .. R : cell[i][j] = WithStatus(Intersect(values[i], working[j]), values[i].status)
    BY <1>1, <1>3, <1>4
  <2> QED
    BY <1>3, <2>1
<1>6. PICK flat : flat = Flat(cell)
  OBVIOUS
<1>7. /\ flat \in Seq(Labelled)
      /\ \A i \in 1 .. L : \A j \in 1 .. R : cell[i][j] \in Elements(flat)
      /\ \A v \in Elements(flat) : \E i \in 1 .. L : \E j \in 1 .. R : v = cell[i][j]
  <2>1. cell \in Seq(Seq(Labelled)) /\ R \in Nat /\ \A i \in 1 .. Len(cell) : Len(cell[i]) = R
    BY <1>5
  <2>2. PICK D : D = Labelled
    OBVIOUS
  <2>3. cell \in Seq(Seq(D))
    BY <2>1, <2>2
  <2>4. /\ Flat(cell) \in Seq(D)
        /\ \A i \in 1 .. Len(cell) : \A j \in 1 .. R : cell[i][j] \in Elements(Flat(cell))
        /\ \A v \in Elements(Flat(cell)) : \E i \in 1 .. Len(cell) : \E j \in 1 .. R : v = cell[i][j]
    BY ONLY <2>1, <2>3, TableFacts
  <2> QED
    BY <1>5, <1>6, <2>2, <2>4
<1>8. Clip(values, working) = Real(flat)
  BY <1>1, <1>3, <1>6 DEF Clip
<1>9. Real(flat) \in Seq(Labelled) /\ Elements(Real(flat)) = {v \in Elements(flat) : v.start < v.end}
  BY <1>7, RealFacts
<1>10. AreReal(Real(flat))
  <2>1. ASSUME NEW n \in 1 .. Len(Real(flat)) PROVE Real(flat)[n].start < Real(flat)[n].end
    <3>1. Real(flat)[n] \in Elements(Real(flat))
      BY <1>9, SequenceFacts DEF Elements
    <3> QED
      BY <1>9, <3>1
  <2> QED
    BY <2>1 DEF AreReal
<1>11. ASSUME NEW t \in Int, NEW status
       PROVE  Shows(Real(flat), t, status) <=> Shows(values, t, status) /\ Covers(working, t)
  <2>1. /\ Shows(values, t, status) <=> \E i \in 1 .. L : At(values[i], t) /\ values[i].status = status
        /\ Covers(working, t) <=> \E j \in 1 .. R : At(working[j], t)
    BY <1>1 DEF Shows, Covers, Elements
  <2>2. ASSUME NEW v \in Elements(flat), At(v, t) PROVE v \in Elements(Real(flat))
    <3>1. v \in Labelled
      BY <1>7, SequenceFacts
    <3>2. v.start \in Int /\ v.end \in Int
      BY <1>2, <3>1
    <3>3. v.start < v.end
      BY <2>2, <3>2 DEF At
    <3> QED
      BY <1>9, <3>3
  <2>3. Shows(Real(flat), t, status) <=> Shows(flat, t, status)
    BY <1>9, <2>2 DEF Shows
  <2>4. Shows(flat, t, status) <=> \E i \in 1 .. L : \E j \in 1 .. R : At(cell[i][j], t) /\ cell[i][j].status = status
    <3>1. Shows(flat, t, status) <=> \E v \in Elements(flat) : At(v, t) /\ v.status = status
      BY DEF Shows
    <3> QED
      BY ONLY <1>7, <3>1
  <2>5. ASSUME NEW i \in 1 .. L, NEW j \in 1 .. R
        PROVE  At(cell[i][j], t) /\ cell[i][j].status = status <=>
                   At(values[i], t) /\ values[i].status = status /\ At(working[j], t)
    <3>1. values[i] \in Labelled /\ working[j] \in Spans
      BY <1>1
    <3>2. cell[i][j] = WithStatus(Intersect(values[i], working[j]), values[i].status)
      BY <1>5
    <3> QED
      BY <1>4, <3>1, <3>2
  <2> QED
    BY <2>1, <2>3, <2>4, <2>5
<1> QED
  BY <1>8, <1>9, <1>10, <1>11

\* The queries of the working hours lie one after the other over all of them.
LEMMA WorkingQueriesFacts ==
    ASSUME NEW search, IsSearch(search)
    PROVE  /\ ArePages(WorkingQueries(search))
           /\ \A t \in Int : search.working[1].start <= t /\ t < LastOf(search.working).end =>
                  Covers(WorkingQueries(search), t)
<1>1. PICK start, last, end : /\ start = search.working[1].start /\ last = LastOf(search.working).end
                              /\ end = Later(last, start + HalfHour)
  OBVIOUS
<1>2. /\ 1 \in 1 .. Len(search.working) /\ LastOf(search.working) = search.working[Len(search.working)]
      /\ Len(search.working) \in 1 .. Len(search.working)
  BY SearchFacts DEF LastOf
<1>3. start \in Int /\ last \in Int
  BY <1>1, <1>2, SearchFacts
<1>4. end \in Int /\ end - start >= HalfHour /\ last <= end
  <2>1. HalfHour \in Nat \ {0}
    BY LimitFacts
  <2> QED
    BY <1>1, <1>3, <2>1 DEF Later
<1>5. WorkingQueries(search) = SplitChunks(start, end)
  BY <1>1 DEF WorkingQueries
<1>6. Tile(SplitChunks(start, end), start, end)
  BY ONLY <1>3, <1>4, SplitFacts
<1>7. \A t \in Int : start <= t /\ t < last => t \in start .. end - 1
  BY <1>3, <1>4
<1> QED
  BY <1>1, <1>5, <1>6, <1>7 DEF Tile

Page(search, person, n) == PageIntervals(WorkingQueries(search)[n], TRUE, person)

\* What has been gathered from the first pages.
Gathered(search, person, missing, n, out) ==
    IF person.resolved /\ \A m \in missing : m > n
    THEN /\ AreReal(out)
         /\ \A t \in Int : \A status :
                Shows(out, t, status) <=>
                    (\E k \in 1 .. n : Shows(Page(search, person, k), t, status)) /\ Covers(search.working, t)
    ELSE out = <<>>

\* One page more.
LEMMA GatherFacts ==
    ASSUME NEW search, IsSearch(search), NEW person, IsPerson(person),
           NEW missing \in SUBSET (1 .. Len(WorkingQueries(search))),
           NEW n \in 1 .. Len(WorkingQueries(search)), NEW out \in Seq(Labelled),
           Gathered(search, person, missing, n - 1, out)
    PROVE  /\ Gather(search, person, missing, n, out) \in Seq(Labelled)
           /\ Gathered(search, person, missing, n, Gather(search, person, missing, n, out))
<1>1. PICK new : new = Gather(search, person, missing, n, out)
  OBVIOUS
<1>2. Len(WorkingQueries(search)) \in Nat /\ missing \subseteq Int
  BY WorkingQueriesFacts, SequenceFacts DEF ArePages
<1>3. CASE n \in missing \/ ~person.resolved
  <2>1. new = <<>>
    BY <1>1, <1>3 DEF Gather
  <2>2. ~(person.resolved /\ \A m \in missing : m > n)
    BY <1>2, <1>3
  <2> QED
    BY <1>1, <2>1, <2>2 DEF Gathered
<1>4. CASE ~(n \in missing \/ ~person.resolved) /\ \E m \in missing : m < n
  <2>1. new = out
    BY <1>1, <1>4 DEF Gather
  <2>2. /\ ~(person.resolved /\ \A m \in missing : m > n)
        /\ ~(person.resolved /\ \A m \in missing : m > n - 1)
    BY <1>2, <1>4
  <2>3. out = <<>>
    BY <2>2 DEF Gathered
  <2> QED
    BY <1>1, <2>1, <2>2, <2>3 DEF Gathered
<1>5. CASE ~(n \in missing \/ ~person.resolved) /\ ~\E m \in missing : m < n
  <2>1. PICK page, clip : page = Page(search, person, n) /\ clip = Clip(page, search.working)
    OBVIOUS
  <2>2. new = out \o clip
    BY <1>1, <1>5, <2>1 DEF Gather, Page
  <2>3. /\ person.resolved /\ \A m \in missing : m > n
        /\ person.resolved /\ \A m \in missing : m > n - 1
    BY <1>2, <1>5
  <2>4. /\ AreReal(out)
        /\ \A t \in Int : \A status :
               Shows(out, t, status) <=>
                   (\E k \in 1 .. n - 1 : Shows(Page(search, person, k), t, status)) /\ Covers(search.working, t)
    BY <2>3 DEF Gathered
  <2>5. page \in Seq(Labelled)
    <3>1. PICK queries : queries = WorkingQueries(search)
      OBVIOUS
    <3>2. queries[n] \in Spans /\ queries[n].end - queries[n].start \in HalfHour .. MaxChunk
      BY <3>1, WorkingQueriesFacts, SequenceFacts DEF ArePages
    <3>3. queries[n].start < queries[n].end
      BY <3>2, LimitFacts DEF Spans
    <3>4. PageIntervals(queries[n], TRUE, person) \in Seq(Labelled)
      BY <3>2, <3>3, PageFacts
    <3> QED
      BY <2>1, <3>1, <3>4 DEF Page
  <2>6. search.working \in Seq(Spans)
    BY SearchFacts
  <2>7. /\ clip \in Seq(Labelled) /\ AreReal(clip)
        /\ \A t \in Int : \A status :
               Shows(clip, t, status) <=> Shows(page, t, status) /\ Covers(search.working, t)
    BY <2>1, <2>5, <2>6, ClipFacts
  <2>8. new \in Seq(Labelled) /\ Elements(new) = Elements(out) \union Elements(clip)
    BY <2>2, <2>7, ConcatFacts
  <2>9. AreReal(new)
    <3>1. ASSUME NEW s \in Seq(Labelled), AreReal(s), NEW v \in Elements(s) PROVE v.start < v.end
      BY <3>1, SequenceFacts DEF AreReal, Elements
    <3>2. \A k \in 1 .. Len(new) : new[k] \in Elements(new)
      BY <2>8, SequenceFacts DEF Elements
    <3> QED
      BY <2>4, <2>7, <2>8, <3>1, <3>2 DEF AreReal
  <2>10. ASSUME NEW t \in Int, NEW status
         PROVE  Shows(new, t, status) <=>
                    (\E k \in 1 .. n : Shows(Page(search, person, k), t, status)) /\ Covers(search.working, t)
    <3>1. Shows(new, t, status) <=> Shows(out, t, status) \/ Shows(clip, t, status)
      BY <2>8 DEF Shows
    <3>2. 1 .. n = (1 .. n - 1) \union {n}
      BY <1>2
    <3>3. (\E k \in 1 .. n : Shows(Page(search, person, k), t, status)) <=>
              (\E k \in 1 .. n - 1 : Shows(Page(search, person, k), t, status)) \/ Shows(page, t, status)
      BY <2>1, <3>2
    <3>4. Shows(out, t, status) <=>
              (\E k \in 1 .. n - 1 : Shows(Page(search, person, k), t, status)) /\ Covers(search.working, t)
      BY <2>4
    <3>5. Shows(clip, t, status) <=> Shows(page, t, status) /\ Covers(search.working, t)
      BY <2>7
    <3> QED
      BY ONLY <3>1, <3>3, <3>4, <3>5
  <2>11. Gathered(search, person, missing, n, new)
    BY <2>3, <2>9, <2>10 DEF Gathered
  <2> QED
    BY <1>1, <2>8, <2>11
<1> QED
  BY <1>3, <1>4, <1>5

\* What availability shows of a participant, if there is data on every page.
LEMMA AvailabilityShows ==
    ASSUME NEW search, IsSearch(search), NEW person, IsPerson(person),
           NEW missing \in SUBSET (1 .. Len(WorkingQueries(search)))
    PROVE  /\ Availability(search, person, missing) \in Seq(Labelled)
           /\ \A t \in Int : \A status : Shows(Availability(search, person, missing), t, status) <=>
                  /\ person.resolved /\ missing = {} /\ Covers(search.working, t)
                  /\ \E k \in 1 .. Len(WorkingQueries(search)) : Shows(Page(search, person, k), t, status)
<1>0. PICK N \in Nat : N = Len(WorkingQueries(search))
  BY WorkingQueriesFacts, SequenceFacts DEF ArePages
<1> DEFINE S == [n \in 0 .. N |-> {x \in Seq(Labelled) : Gathered(search, person, missing, n, x)}]
           step == [c \in (1 .. N) \X Seq(Labelled) |-> Gather(search, person, missing, c[1], c[2])]
           equation(f) == f = [n \in 0 .. N |-> IF n = 0 THEN <<>> ELSE Gather(search, person, missing, n, f[n - 1])]
<1>1. \A n \in 0 .. N : \A x : x \in S[n] <=> x \in Seq(Labelled) /\ Gathered(search, person, missing, n, x)
  OBVIOUS
<1>2. ASSUME NEW n \in 1 .. N, NEW x \in Seq(Labelled)
      PROVE  step[<<n, x>>] = Gather(search, person, missing, n, x)
  OBVIOUS
<1> HIDE DEF S, step
<1>3. ASSUME NEW n \in 1 .. N, NEW x \in Seq(Labelled), x \in S[n - 1]
      PROVE  (Gather(search, person, missing, n, x)) \in S[n]
  <2>1. n - 1 \in 0 .. N /\ n \in 0 .. N
    BY <1>0
  <2>2. Gathered(search, person, missing, n - 1, x)
    BY <1>1, <1>3, <2>1
  <2>3. /\ Gather(search, person, missing, n, x) \in Seq(Labelled)
        /\ Gathered(search, person, missing, n, Gather(search, person, missing, n, x))
    BY <1>0, <2>2, GatherFacts
  <2> QED
    BY <1>1, <2>1, <2>3
<1>4. <<>> \in S[0]
  <2>1. 0 \in 0 .. N /\ <<>> \in Seq(Labelled) /\ 1 .. 0 = {} /\ Len(<<>>) = 0
    OBVIOUS
  <2>2. Gathered(search, person, missing, 0, <<>>)
    BY <2>1, NoElements DEF Gathered, Shows, AreReal
  <2> QED
    BY <1>1, <2>1, <2>2
<1>5. StepsWithin(N, Seq(Labelled), S, <<>>, step)
  <2>1. \A n \in 0 .. N : S[n] \subseteq Seq(Labelled)
    BY <1>1
  <2>2. ASSUME NEW n \in 1 .. N, NEW x \in S[n - 1] PROVE step[<<n, x>>] \in S[n]
    <3>1. n - 1 \in 0 .. N
      BY <1>0
    <3>2. x \in Seq(Labelled)
      BY <2>1, <3>1
    <3>3. step[<<n, x>>] = Gather(search, person, missing, n, x)
      BY ONLY <1>2, <3>2
    <3>4. (Gather(search, person, missing, n, x)) \in S[n]
      BY ONLY <1>3, <2>2, <3>2
    <3> QED
      BY ONLY <3>3, <3>4
  <2> QED
    BY <1>4, <2>1, <2>2 DEF StepsWithin
<1>6. PICK f \in [0 .. N -> Seq(Labelled)] :
          /\ f[0] = <<>>
          /\ \A n \in 1 .. N : f[n] = step[<<n, f[n - 1]>>]
          /\ \A n \in 0 .. N : f[n] \in S[n]
  <2>1. N \in Nat
    OBVIOUS
  <2>2. PICK D, base : D = Seq(Labelled) /\ base = <<>>
    OBVIOUS
  <2>3. StepsWithin(N, D, S, base, step)
    BY ONLY <1>5, <2>2
  <2>4. AreSteps(N, D, S, base, step)
    BY ONLY <2>1, <2>3, StepsDefine
  <2>5. \E f \in [0 .. N -> D] :
          /\ f[0] = base
          /\ \A n \in 1 .. N : f[n] = step[<<n, f[n - 1]>>]
          /\ \A n \in 0 .. N : f[n] \in S[n]
    BY ONLY <2>4 DEF AreSteps
  <2> QED
    BY ONLY <2>2, <2>5
<1>7. ASSUME NEW n \in 0 .. N
      PROVE  f[n] = IF n = 0 THEN <<>> ELSE Gather(search, person, missing, n, f[n - 1])
  <2>1. CASE n = 0
    BY <1>6, <2>1
  <2>2. CASE n \in 1 .. N
    <3>1. n - 1 \in 0 .. N
      BY <2>2
    <3> QED
      BY <1>2, <1>6, <2>2, <3>1
  <2>3. n = 0 \/ n \in 1 .. N
    OBVIOUS
  <2> QED
    BY ONLY <2>1, <2>2, <2>3
<1>8. equation(f)
  BY <1>6, <1>7
<1>9. PICK g : g = CHOOSE h : equation(h)
  OBVIOUS
<1>10. equation(g)
  BY <1>8, <1>9
<1>11. Availability(search, person, missing) = MergeStatus(g[N])
  BY <1>0, <1>9 DEF Availability
<1>12. g[0] = <<>> /\ \A n \in 1 .. N : g[n] = Gather(search, person, missing, n, g[n - 1])
  <2>1. \A n \in 0 .. N : g[n] = IF n = 0 THEN <<>> ELSE Gather(search, person, missing, n, g[n - 1])
    BY <1>10
  <2>2. ASSUME NEW n \in 1 .. N PROVE g[n] = Gather(search, person, missing, n, g[n - 1])
    <3>1. n \in 0 .. N /\ n # 0
      OBVIOUS
    <3> QED
      BY ONLY <2>1, <3>1
  <2>3. g[0] = <<>>
    BY ONLY <2>1, 0 \in 0 .. N, <1>0
  <2> QED
    BY ONLY <2>2, <2>3
<1>13. \A n \in 0 .. N : g[n] \in S[n]
  <2>1. ASSUME NEW n \in 1 .. N, g[n - 1] \in S[n - 1] PROVE g[n] \in S[n]
    <3>1. n - 1 \in 0 .. N
      BY <1>0
    <3>2. g[n - 1] \in Seq(Labelled)
      BY <1>1, <2>1, <3>1
    <3> QED
      BY <1>3, <1>12, <2>1, <3>2
  <2> QED
    BY <1>4, <1>12, <2>1, StepsStay
<1>14. g[N] \in S[N] /\ N \in 0 .. N
  <2>1. N \in 0 .. N
    BY <1>0
  <2> QED
    BY <1>13, <2>1
<1>15. g[N] \in Seq(Labelled) /\ Gathered(search, person, missing, N, g[N])
  BY <1>1, <1>14
<1>16. (\A m \in missing : m > N) <=> missing = {}
  BY <1>0
<1>17. AreReal(g[N])
  <2>1. CASE person.resolved /\ missing = {}
    BY <1>15, <1>16, <2>1 DEF Gathered
  <2>2. CASE ~(person.resolved /\ missing = {})
    <3>1. g[N] = <<>>
      BY <1>15, <1>16, <2>2 DEF Gathered
    <3>2. 1 .. Len(<<>>) = {}
      OBVIOUS
    <3> QED
      BY <3>1, <3>2 DEF AreReal
  <2> QED
    BY <2>1, <2>2
<1>18. /\ MergeStatus(g[N]) \in Seq(Labelled)
       /\ \A t \in Int : \A status : Shows(MergeStatus(g[N]), t, status) <=> Shows(g[N], t, status)
  BY <1>15, <1>17, MergeStatusFacts
<1>19. ASSUME NEW t \in Int, NEW status
       PROVE  Shows(g[N], t, status) <=>
                  /\ person.resolved /\ missing = {} /\ Covers(search.working, t)
                  /\ \E k \in 1 .. N : Shows(Page(search, person, k), t, status)
  <2>1. CASE person.resolved /\ missing = {}
    BY <1>15, <1>16, <2>1 DEF Gathered
  <2>2. CASE ~(person.resolved /\ missing = {})
    <3>1. g[N] = <<>>
      BY <1>15, <1>16, <2>2 DEF Gathered
    <3>2. ~Shows(g[N], t, status)
      BY <3>1, NoElements DEF Shows
    <3> QED
      BY <2>2, <3>2
  <2> QED
    BY <2>1, <2>2
<1> QED
  BY <1>0, <1>11, <1>18, <1>19

\* What is shown of one participant at one time.
LEMMA AvailabilityForOne ==
    ASSUME NEW search, IsSearch(search), NEW person, IsPerson(person),
           NEW missing \in SUBSET (1 .. Len(WorkingQueries(search))), NEW t \in Int,
           NEW shown, shown = Availability(search, person, missing)
    PROVE  IF person.resolved /\ missing = {} /\ Covers(search.working, t)
           THEN \E status : /\ Shows(shown, t, status) /\ IsTrueOf(person, t, status)
                            /\ \A other : Shows(shown, t, other) => other = status
           ELSE \A status : ~Shows(shown, t, status)
<1>1. PICK queries : queries = WorkingQueries(search)
  OBVIOUS
<1>2. PICK L \in Nat : L = Len(queries) /\ DOMAIN queries = 1 .. L
  BY <1>1, WorkingQueriesFacts, SequenceFacts DEF ArePages
<1>3. ASSUME NEW n \in 1 .. L
      PROVE  /\ queries[n] \in Spans
             /\ \A status : Shows(Page(search, person, n), t, status) =>
                    At(queries[n], t) /\ IsTrueOf(person, t, status)
             /\ At(queries[n], t) => \E status :
                    /\ Shows(Page(search, person, n), t, status)
                    /\ \A other : Shows(Page(search, person, n), t, other) => other = status
  <2>1. queries[n] \in Spans /\ queries[n].end - queries[n].start \in HalfHour .. MaxChunk
    BY <1>1, <1>2, WorkingQueriesFacts, SequenceFacts DEF ArePages
  <2>2. queries[n].start < queries[n].end
    BY <2>1, LimitFacts DEF Spans
  <2>3. PICK query, page : query = queries[n] /\ page = PageIntervals(query, TRUE, person)
    OBVIOUS
  <2>4. Page(search, person, n) = page
    BY <1>1, <2>3 DEF Page
  <2>5. query \in Spans /\ query.start < query.end
    BY <2>1, <2>2, <2>3
  <2>6. /\ \A status : Shows(page, t, status) => Said(query, TRUE, person, t, status)
        /\ At(query, t) => \E status :
               Shows(page, t, status) /\ \A other : Shows(page, t, other) => other = status
    <3>1. TRUE \in BOOLEAN
      OBVIOUS
    <3>2. /\ \A u \in Int : \A status :
                 Shows(PageIntervals(query, TRUE, person), u, status) => Said(query, TRUE, person, u, status)
          /\ \A u \in Int : At(query, u) => \E status :
                 /\ Shows(PageIntervals(query, TRUE, person), u, status)
                 /\ \A other : Shows(PageIntervals(query, TRUE, person), u, other) => other = status
      BY ONLY <2>5, <3>1, IsPerson(person), PageFacts
    <3>3. t \in Int
      OBVIOUS
    <3> QED
      BY ONLY <2>3, <3>2, <3>3
  <2>7. \A status : Said(query, TRUE, person, t, status) => At(query, t) /\ IsTrueOf(person, t, status)
    BY DEF Said
  <2> QED
    BY ONLY <2>1, <2>3, <2>4, <2>6, <2>7
<1>4. \A status : Shows(shown, t, status) <=>
          /\ person.resolved /\ missing = {} /\ Covers(search.working, t)
          /\ \E k \in 1 .. L : Shows(Page(search, person, k), t, status)
  BY <1>1, <1>2, AvailabilityShows
<1>5. CASE person.resolved /\ missing = {} /\ Covers(search.working, t)
  <2>1. search.working[1].start <= t /\ t < LastOf(search.working).end
    <3>1. PICK k \in 1 .. Len(search.working) : At(search.working[k], t)
      BY <1>5, SearchFacts DEF Covers, Elements
    <3>2. PICK first, last, from, to : /\ first = search.working[1].start /\ last = LastOf(search.working).end
                                       /\ from = search.working[k].start /\ to = search.working[k].end
      OBVIOUS
    <3>3. 1 \in 1 .. Len(search.working) /\ Len(search.working) \in 1 .. Len(search.working)
      BY SearchFacts
    <3>4. first \in Int /\ last \in Int /\ from \in Int /\ to \in Int
      BY <3>2, <3>3, SearchFacts DEF LastOf
    <3>5. first <= from /\ to <= last
      BY <3>2, SearchFacts
    <3>6. from <= t /\ t < to
      BY <3>1, <3>2 DEF At
    <3> QED
      BY <3>2, <3>4, <3>5, <3>6
  <2>2. PICK n \in 1 .. L : At(queries[n], t)
    BY <1>1, <1>2, <2>1, WorkingQueriesFacts DEF Covers, Elements
  <2>3. \A k \in 1 .. L : At(queries[k], t) => k = n
    BY <1>1, <1>2, <2>2, PagesAreApart, WorkingQueriesFacts
  <2>4. \A status : Shows(shown, t, status) <=> Shows(Page(search, person, n), t, status)
    BY <1>3, <1>4, <1>5, <2>3
  <2> QED
    BY <1>3, <1>5, <2>2, <2>4
<1>6. CASE ~(person.resolved /\ missing = {} /\ Covers(search.working, t))
  BY <1>4, <1>6
<1> QED
  BY <1>5, <1>6

WorkingTimes(search) == UNION {w.start .. w.end - 1 : w \in {search.working[k] : k \in DOMAIN search.working}}
ShownAt(shown, t) == {shown[n].status : n \in {k \in DOMAIN shown : shown[k].start <= t /\ t < shown[k].end}}
IsNear(person, t, d, status) == \E b \in person.busy :
    b.status = status /\ b.start < t + 1 + d /\ t - d < b.end

\* The question and the answer after AskAvailability.
LEMMA AvailabilityAnswered ==
    ASSUME IsSearch(question.search), AskAvailability
    PROVE  /\ question'.is = "availability"
           /\ AvailabilityIsRight(question'.search, question'.missing, answer'.schedule)
<1>1. PICK search : search = question.search
  OBVIOUS
<1>2. PICK missing \in SUBSET DOMAIN WorkingQueries(search) :
          /\ question' = [is |-> "availability", search |-> search, missing |-> missing]
          /\ answer' = [schedule |-> [i \in DOMAIN search.people |->
                                         Availability(search, search.people[i], missing)]]
  BY <1>1 DEF AskAvailability
<1>3. PICK schedule : schedule = [i \in DOMAIN search.people |-> Availability(search, search.people[i], missing)]
  OBVIOUS
<1>4. /\ question'.is = "availability" /\ question'.search = search /\ question'.missing = missing
      /\ answer'.schedule = schedule /\ IsSearch(search)
  BY <1>1, <1>2, <1>3
<1>5. missing \in SUBSET (1 .. Len(WorkingQueries(search)))
  BY <1>2, <1>4, WorkingQueriesFacts, SequenceFacts DEF ArePages
<1>6. ASSUME NEW i \in DOMAIN search.people, NEW t \in search.working[1].start .. LastOf(search.working).end
      PROVE  IF search.people[i].resolved /\ missing = {} /\ t \in WorkingTimes(search)
             THEN \E status \in ShownAt(schedule[i], t) :
                      /\ ShownAt(schedule[i], t) = {status}
                      /\ IF status = "free"
                         THEN \A b \in search.people[i].busy : ~IsNear(search.people[i], t, 0, b.status)
                         ELSE IsNear(search.people[i], t, HalfHour, status)
             ELSE ShownAt(schedule[i], t) = {}
  <2>0. PICK person, shown, at, working : /\ person = search.people[i] /\ shown = schedule[i]
                                          /\ at = ShownAt(shown, t) /\ working = WorkingTimes(search)
    OBVIOUS
  <2>1. IsPerson(person) /\ shown = Availability(search, person, missing)
    BY <1>3, <1>4, <2>0, SearchFacts
  <2>2. t \in Int
    <3>1. 1 \in 1 .. Len(search.working) /\ LastOf(search.working) = search.working[Len(search.working)]
          /\ Len(search.working) \in 1 .. Len(search.working)
      BY <1>4, SearchFacts DEF LastOf
    <3>2. search.working[1].start \in Int /\ LastOf(search.working).end \in Int
      BY <1>4, <3>1, SearchFacts
    <3> QED
      BY <3>2
  <2>3. t \in working <=> Covers(search.working, t)
    <3>1. t \in working <=> \E k \in DOMAIN search.working : t \in search.working[k].start .. search.working[k].end - 1
      BY <2>0 DEF WorkingTimes
    <3>2. Covers(search.working, t) <=> \E k \in DOMAIN search.working : At(search.working[k], t)
      BY DEF Covers, Elements
    <3>3. ASSUME NEW k \in DOMAIN search.working
          PROVE  t \in search.working[k].start .. search.working[k].end - 1 <=> At(search.working[k], t)
      <4>1. PICK from, to : from = search.working[k].start /\ to = search.working[k].end
        OBVIOUS
      <4>2. from \in Int /\ to \in Int
        BY <1>4, <4>1, SearchFacts
      <4> QED
        BY <2>2, <4>1, <4>2 DEF At
    <3> QED
      BY <3>1, <3>2, <3>3
  <2>4. \A status : status \in at <=> Shows(shown, t, status)
    BY <2>0 DEF ShownAt, Shows, Elements, At
  <2>5. IF person.resolved /\ missing = {} /\ Covers(search.working, t)
        THEN \E status : /\ Shows(shown, t, status) /\ IsTrueOf(person, t, status)
                         /\ \A other : Shows(shown, t, other) => other = status
        ELSE \A status : ~Shows(shown, t, status)
    BY <1>4, <1>5, <2>1, <2>2, AvailabilityForOne
  <2>6. CASE person.resolved /\ missing = {} /\ t \in working
    <3>1. PICK status : /\ Shows(shown, t, status) /\ IsTrueOf(person, t, status)
                        /\ \A other : Shows(shown, t, other) => other = status
      BY <2>3, <2>5, <2>6
    <3>2. status \in at /\ at = {status}
      BY <2>4, <3>1
    <3>3. CASE status = "free"
      <4>1. \A c \in person.busy : ~At(c, t)
        BY <3>1, <3>3 DEF IsTrueOf
      <4>2. \A c \in person.busy : c.start \in Int /\ c.end \in Int
        BY <2>1 DEF IsPerson, Busy
      <4>3. \A c \in person.busy : ~(c.start < t + 1 + 0 /\ t - 0 < c.end)
        BY <2>2, <4>1, <4>2 DEF At
      <4>4. \A b \in person.busy : ~IsNear(person, t, 0, b.status)
        BY <4>3 DEF IsNear
      <4> QED
        BY ONLY <2>0, <2>6, <3>2, <3>3, <4>4
    <3>4. CASE status # "free"
      <4>1. \E b \in person.busy : b.status = status /\ b.start < t + 1 + HalfHour /\ t - HalfHour < b.end
        BY <3>1, <3>4 DEF IsTrueOf
      <4>2. IsNear(person, t, HalfHour, status)
        BY <4>1 DEF IsNear
      <4> QED
        BY ONLY <2>0, <2>6, <3>2, <3>4, <4>2
    <3> QED
      BY <3>3, <3>4
  <2>7. CASE ~(person.resolved /\ missing = {} /\ t \in working)
    <3>1. at = {}
      BY <2>3, <2>4, <2>5, <2>7
    <3> QED
      BY ONLY <2>0, <2>7, <3>1
  <2> QED
    BY <2>6, <2>7
<1>8. AvailabilityIsRight(search, missing, schedule)
  BY ONLY <1>6 DEF AvailabilityIsRight, WorkingTimes, ShownAt, IsNear
<1> QED
  BY ONLY <1>4, <1>8

\* Every answer to a search for meeting times is right: queries have a length that
\* Exchange accepts, a suggestion suits everyone who is required, what is not
\* suggested does not, windows hold exactly the suggestions that suit everyone,
\* and availability shows what the calendars hold or nothing (SlotsAreRight,
\* AvailabilityIsRight).
THEOREM SchedulesHold == ScheduleSpec => []SchedulesAreExact
<1> DEFINE Asked == (question.is = "search" => IsSearch(question.search)) /\ SchedulesAreExact
<1>1. ASSUME ScheduleInit PROVE Asked
  <2>1. question.is = "search" /\ question.search \in Searches
    BY <1>1 DEF ScheduleInit, SearchQuestions
  <2> QED
    BY <2>1, SearchesAreSound DEF SchedulesAreExact
<1>2. ASSUME Asked, [AskSchedule]_<<question, answer>> PROVE Asked'
  <2>1. CASE AskSlots
    <3>1. IsSearch(question.search)
      BY <1>2, <2>1 DEF AskSlots
    <3>2. question'.is = "slots" /\ SlotsAreRight(question'.search, question'.answers, answer')
      BY ONLY <2>1, <3>1, SlotsAnswered
    <3> QED
      BY <3>2 DEF SchedulesAreExact
  <2>2. CASE AskAvailability
    <3>1. IsSearch(question.search)
      BY <1>2, <2>2 DEF AskAvailability
    <3>2. /\ question'.is = "availability"
          /\ AvailabilityIsRight(question'.search, question'.missing, answer'.schedule)
      BY ONLY <2>2, <3>1, AvailabilityAnswered
    <3> QED
      BY <3>2 DEF SchedulesAreExact
  <2>3. CASE UNCHANGED <<question, answer>>
    BY <1>2, <2>3 DEF SchedulesAreExact
  <2> QED
    BY <1>2, <2>1, <2>2, <2>3 DEF AskSchedule
<1>3. Asked => SchedulesAreExact
  OBVIOUS
<1> QED
  BY <1>1, <1>2, <1>3, PTL DEF ScheduleSpec
====
