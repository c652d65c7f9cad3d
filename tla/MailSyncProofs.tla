---- MODULE MailSyncProofs ----
(***************************************************************************)
(* Theorems about MailSync for any folders, mails, pages and SyncKeys.     *)
(*                                                                         *)
(* A copy of a folder, wherever it is (in the session, in a page under     *)
(* way, kept by a change under way), goes with a key.  The argument: as    *)
(* long as Exchange knows that key, the copy follows the view which        *)
(* Exchange has of it (Holds).  A new key is newer than any key of a copy, *)
(* so starting a folder over makes copies stale instead of wrong, and ids  *)
(* are not used again while a copy could still mention them.               *)
(***************************************************************************)
EXTENDS MailSync, TLAPS

Keys        == 0..MaxKeys
Memory      == [last : Keys, key : Keys, seen : Mailbox, oldKey : Keys, oldSeen : Mailbox]
Collections == [key : Keys, complete : BOOLEAN, mail : Mailbox]
Changes     == UNION {[S -> Content] : S \in SUBSET Mails}

Plain    == [is : {"none", "sent", "policy", "error", "invalid", "stale"}]
Pages    == [is : {"page"}, key : Keys, changes : Changes, more : BOOLEAN]
Verdicts == [is : {"done", "missing", "rejected"}, key : Keys]
Moved    == [is : {"done"}, new : Mails]

Lists       == [does : {"list"}, round : Nat]
PropChanges == [does : {"change"}, folder : Folders, mail : Mails, value : Content \ {0}, kept : Collections]
Moves       == [does : {"move"}, folder : Folders, mail : Mails, value : Folders]

Types ==
    /\ box \in [Folders -> Mailbox]
    /\ srv \in [Folders -> Memory]
    /\ given \in Keys
    /\ news \in 0..MaxNews
    /\ coll \in [Folders -> Collections]
    /\ job = NoJob \/ job \in Lists \cup PropChanges \cup Moves
    /\ wire \in [Folders -> Plain \cup Pages \cup Verdicts \cup Moved]
    /\ ran \in BOOLEAN

\* What a copy and a view of it may differ in: items dropped from the copy
\* because they left the folder.
Follows(content, mail, view) ==
    \A m \in Mails : mail[m] = view[m] \/ (mail[m] = 0 /\ content[m] = 0)

\* A copy with a key, as far as Exchange knows the key.
Holds(s, content, key, mail) ==
    /\ key <= s.last
    /\ key # 0 /\ key = s.key => Follows(content, mail, s.seen)
    /\ key # 0 /\ key = s.oldKey => Follows(content, mail, s.oldSeen)

InOrder(s) == s.last <= given /\ s.key <= s.last /\ (s.oldKey = 0 \/ s.oldKey < s.key)
Ordered == \A f \in Folders : InOrder(srv[f])

Listed(f) ==
    /\ Holds(srv[f], box[f], coll[f].key, coll[f].mail)
    /\ coll[f].key = 0 => coll[f].mail = Empty
    /\ coll[f].complete => coll[f].key # 0 /\ coll[f].key # srv[f].oldKey
Views == \A f \in Folders : Listed(f)

\* A page under way leads to a copy as well.
Listing(f) ==
    /\ wire[f] \in Plain \cup Pages
    /\ wire[f].is # "none" => ~coll[f].complete
    /\ wire[f].is = "page" =>
        /\ wire[f].key # 0 /\ wire[f].key # srv[f].oldKey
        /\ Holds(srv[f], box[f], wire[f].key, Patched(coll[f].mail, wire[f].changes))

\* What FinishChange makes of the collection that was kept.
Restored(answer) ==
    CASE answer = "done" -> [job.kept.mail EXCEPT ![job.mail] = job.value]
      [] answer = "missing" -> [job.kept.mail EXCEPT ![job.mail] = 0]
      [] OTHER -> job.kept.mail

\* A change that is not answered can only be executed or refused under its key.
Changing(f) ==
    /\ wire[f] \in Plain \cup Verdicts
    /\ coll[f] = NewCollection
    /\ job.kept.mail[job.mail] # 0
    /\ wire[f].is = "sent" =>
        /\ ~ran
        /\ job.kept.key # 0 /\ job.kept.key # srv[f].oldKey
        /\ Holds(srv[f], box[f], job.kept.key, job.kept.mail)
    /\ wire[f].is \in {"done", "missing", "rejected"} =>
        /\ ran <=> wire[f].is = "done"
        /\ wire[f].key # 0 /\ wire[f].key # srv[f].oldKey
        /\ Holds(srv[f], box[f], wire[f].key, Restored(wire[f].is))
    /\ wire[f].is = "stale" => ~ran

\* A mail that was moved is gone from its folder, and its new id is not listed yet.
Moving(f) ==
    /\ wire[f] \in Plain \cup Moved
    /\ job.value # f
    /\ wire[f].is \in {"sent", "stale"} => ~ran
    /\ wire[f].is = "done" => ran /\ box[f][job.mail] = 0 /\ coll[job.value].mail[wire[f].new] = 0

Works ==
    /\ job = NoJob => wire = Quiet /\ ~ran
    /\ job.does = "list" => \A f \in Folders : Listing(f)
    /\ job.does = "change" => Changing(job.folder)
    /\ job.does = "move" => Moving(job.folder)
    /\ job.does \in {"change", "move"} => \A f \in Folders \ {job.folder} : wire[f] = Answer("none")

IInv == Types /\ Ordered /\ Views /\ Works

----
(* Keys and copies *)

\* Bounds are numbers, and the empty folder is a mailbox.
LEMMA Constants == MaxKeys \in Nat /\ MaxNews \in Nat /\ Empty \in Mailbox /\ 0 \in Content /\ 0 \in Keys
BY BoundsAreNatural DEF Empty, Mailbox, Content, Keys

\* What a job is called says what it is.
LEMMA JobKinds ==
    ASSUME Types
    PROVE  /\ job.does = "list" => job \in Lists
           /\ job.does = "change" => job \in PropChanges
           /\ job.does = "move" => job \in Moves
           /\ job # NoJob => job.does \in {"list", "change", "move"}
           /\ NoJob.does \notin {"list", "change", "move"}
BY DEF Types, NoJob, Lists, PropChanges, Moves

\* Starting over makes every copy stale.
LEMMA RenewedHolds ==
    ASSUME NEW s \in Memory, NEW t \in Memory, NEW content, NEW key \in Keys, NEW mail,
           t.last = s.last + 1, t.key = s.last + 1, t.oldKey = 0, Holds(s, content, key, mail)
    PROVE  Holds(t, content, key, mail)
BY Constants DEF Holds, Memory, Keys

\* A copy stays right as long as no id comes back that a view could mention.
LEMMA ContentHolds ==
    ASSUME NEW s \in Memory, NEW old \in Mailbox, NEW new \in Mailbox, NEW key, NEW mail,
           Holds(s, old, key, mail),
           \A m \in Mails : old[m] = 0 /\ new[m] # 0 => s.seen[m] = 0 /\ s.oldSeen[m] = 0
    PROVE  Holds(s, new, key, mail)
BY DEF Holds, Follows

\* A page leads from a copy that follows a view to one that follows the next,
\* and the first copy becomes that of the key before.
LEMMA ToldHolds ==
    ASSUME NEW s \in Memory, NEW t \in Memory, NEW content \in Mailbox, NEW view \in Mailbox,
           NEW key \in Keys, NEW mail \in Mailbox, NEW changed \in SUBSET Mails,
           key <= s.last, Follows(content, mail, view),
           t.last = s.last + 1, t.key = s.last + 1, t.oldKey = key, t.oldSeen = view,
           t.seen = [m \in Mails |-> IF m \in changed THEN content[m] ELSE view[m]]
    PROVE  /\ Holds(t, content, key, mail)
           /\ Holds(t, content, s.last + 1, Patched(mail, [m \in changed |-> content[m]]))
<1>1. /\ s.last \in Nat /\ key \in Nat /\ key <= t.last /\ key # t.key
      /\ s.last + 1 <= t.last /\ s.last + 1 # t.oldKey
  BY Constants DEF Memory, Keys
<1>2. Follows(content, Patched(mail, [m \in changed |-> content[m]]), t.seen)
  BY DEF Follows, Patched
<1> QED BY <1>1, <1>2 DEF Holds

\* A key that is given out is the newest of its folder.
LEMMA NextKeyFacts ==
    ASSUME Types, Ordered, NEW f \in Folders, NEW seen \in Mailbox, NEW oldKey \in Keys,
           NEW oldSeen \in Mailbox, oldKey <= srv[f].last, NextKey(f, seen, oldKey, oldSeen)
    PROVE  /\ srv' \in [Folders -> Memory] /\ given' \in Keys /\ Ordered'
           /\ srv[f].last + 1 \in Keys /\ srv[f].last + 1 # 0
           /\ srv'[f] \in Memory
           /\ srv'[f].last = srv[f].last + 1 /\ srv'[f].key = srv[f].last + 1 /\ srv'[f].seen = seen
           /\ srv'[f].oldKey = oldKey /\ srv'[f].oldSeen = oldSeen
           /\ \A g \in Folders \ {f} : srv'[g] = srv[g]
<1> DEFINE n == srv[f].last + 1
           s == [last |-> n, key |-> n, seen |-> seen, oldKey |-> oldKey, oldSeen |-> oldSeen]
<1>1. given \in Nat /\ given < MaxKeys /\ given' = given + 1 /\ srv[f].last \in Nat /\ oldKey \in Nat
  BY Constants DEF NextKey, Types, Memory, Keys
<1>2. srv[f].last <= given
  BY DEF Ordered, InOrder
<1>3. n \in Keys /\ n # 0 /\ given' \in Keys /\ oldKey < n /\ n <= given'
  BY <1>1, <1>2, Constants DEF Keys
<1>4. srv' = [srv EXCEPT ![f] = s]
  BY DEF NextKey
<1>5. s \in Memory /\ s.last = n /\ s.key = n /\ s.seen = seen /\ s.oldKey = oldKey /\ s.oldSeen = oldSeen
  BY <1>3 DEF Memory
<1> HIDE DEF s, n
<1>6. /\ srv' \in [Folders -> Memory] /\ srv'[f] = s
      /\ \A g \in Folders \ {f} : srv'[g] = srv[g]
  BY <1>4, <1>5 DEF Types
<1>7. Ordered'
  <2>1. ASSUME NEW g \in Folders
        PROVE  InOrder(srv[g])'
    <3>1. CASE g = f
      BY <1>3, <1>5, <1>6, <3>1 DEF InOrder, Keys
    <3>2. CASE g # f
      <4>1. srv[g].last <= given' /\ srv'[g] = srv[g]
        BY <1>1, <1>6, <3>2, Constants DEF Ordered, InOrder, Types, Memory, Keys
      <4> QED BY <4>1 DEF Ordered, InOrder
    <3> QED BY <3>1, <3>2
  <2> QED BY <2>1 DEF Ordered
<1> QED BY <1>3, <1>5, <1>6, <1>7 DEF n

\* A folder that starts over remembers nothing before its key.
LEMMA StartOverFacts ==
    ASSUME Types, Ordered, NEW f \in Folders, StartOver(f)
    PROVE  /\ srv' \in [Folders -> Memory] /\ given' \in Keys /\ Ordered'
           /\ srv[f].last + 1 \in Keys /\ srv[f].last + 1 # 0
           /\ srv'[f].key = srv[f].last + 1 /\ srv'[f].seen = Empty /\ srv'[f].oldKey = 0
           /\ \A g \in Folders \ {f} : srv'[g] = srv[g]
           /\ \A key \in Keys : \A content, mail :
                 Holds(srv[f], content, key, mail) => Holds(srv'[f], content, key, mail)
<1>1. 0 <= srv[f].last /\ srv[f] \in Memory
  BY Constants DEF Types, Memory, Keys
<1>2. NextKey(f, Empty, 0, Empty)
  BY DEF StartOver
<1>3. /\ srv' \in [Folders -> Memory] /\ given' \in Keys /\ Ordered'
      /\ srv[f].last + 1 \in Keys /\ srv[f].last + 1 # 0 /\ srv'[f] \in Memory
      /\ srv'[f].last = srv[f].last + 1 /\ srv'[f].key = srv[f].last + 1 /\ srv'[f].seen = Empty
      /\ srv'[f].oldKey = 0
      /\ \A g \in Folders \ {f} : srv'[g] = srv[g]
  BY <1>1, <1>2, Constants, NextKeyFacts
<1>4. ASSUME NEW content, NEW mail, NEW key \in Keys, Holds(srv[f], content, key, mail)
      PROVE  Holds(srv'[f], content, key, mail)
  BY <1>1, <1>3, <1>4, RenewedHolds
<1> QED BY <1>3, <1>4

----
(* Others *)

\* An id comes back only if no copy and no view mentions it.
LEMMA OtherClientKeeps ==
    ASSUME IInv, NEW f \in Folders, NEW m \in Mails, NEW v \in Content, OtherClient(f, m, v)
    PROVE  IInv'
<1>a. /\ srv' = srv /\ given' = given /\ coll' = coll /\ wire' = wire /\ job' = job /\ ran' = ran
      /\ news' \in 0..MaxNews
  BY Constants DEF OtherClient, exchange, IInv, Types
<1>b. /\ box' \in [Folders -> Mailbox] /\ box'[f] \in Mailbox /\ box[f] \in Mailbox
      /\ \A g \in Folders \ {f} : box'[g] = box[g]
      /\ \A n \in Mails \ {m} : box'[f][n] = box[f][n]
  BY DEF OtherClient, IInv, Types, Mailbox
<1>c. \A n \in Mails : box[f][n] = 0 /\ box'[f][n] # 0 => n = m /\ Unused(f, m)
  BY <1>b DEF OtherClient
<1>d. ASSUME NEW g \in Folders, NEW key, NEW mail, Holds(srv[g], box[g], key, mail)
      PROVE  Holds(srv[g], box'[g], key, mail)
  <2>1. CASE g = f
    <3>1. \A n \in Mails : box[f][n] = 0 /\ box'[f][n] # 0 => srv[f].seen[n] = 0 /\ srv[f].oldSeen[n] = 0
      BY <1>c DEF Unused
    <3>2. srv[f] \in Memory
      BY DEF IInv, Types
    <3> QED BY <1>b, <1>d, <2>1, <3>1, <3>2, ContentHolds
  <2>2. CASE g # f
    BY <1>b, <1>d, <2>2
  <2> QED BY <2>1, <2>2
<1>1. Types' /\ Ordered'
  BY <1>a, <1>b DEF IInv, Types, Ordered, InOrder
<1>2. Views'
  BY <1>a, <1>d DEF IInv, Views, Listed
<1>3. Works'
  <2>1. ASSUME NEW g \in Folders, Listing(g)
        PROVE  Listing(g)'
    BY <1>a, <1>d, <2>1 DEF Listing
  <2>2. ASSUME job.does = "change"
        PROVE  Changing(job.folder)'
    <3>1. job.folder \in Folders
      BY <2>2, JobKinds DEF IInv, PropChanges
    <3>2. \A s : Restored(s)' = Restored(s)
      BY <1>a DEF Restored
    <3> HIDE DEF Restored
    <3> QED BY <1>a, <1>d, <2>2, <3>1, <3>2 DEF IInv, Works, Changing
  <2>3. ASSUME job.does = "move"
        PROVE  Moving(job.folder)'
    <3>1. job.folder \in Folders /\ job.mail \in Mails
      BY <2>3, JobKinds DEF IInv, Moves
    <3>2. wire[job.folder].is = "done" => box'[job.folder][job.mail] = 0
      <4>1. CASE job.folder = f
        BY <1>c, <2>3, <3>1, <4>1 DEF IInv, Works, Moving, Unused
      <4>2. CASE job.folder # f
        BY <1>b, <2>3, <3>1, <4>2 DEF IInv, Works, Moving
      <4> QED BY <4>1, <4>2
    <3> QED BY <1>a, <2>3, <3>1, <3>2 DEF IInv, Works, Moving
  <2> QED BY <1>a, <2>1, <2>2, <2>3 DEF IInv, Works, Quiet, Answer
<1> QED BY <1>1, <1>2, <1>3 DEF IInv

\* Another process makes the keys of a folder unknown.
LEMMA OtherSessionKeeps ==
    ASSUME IInv, NEW f \in Folders, OtherSession(f)
    PROVE  IInv'
<1>a. box' = box /\ news' = news /\ coll' = coll /\ wire' = wire /\ job' = job /\ ran' = ran
  BY DEF OtherSession
<1>b. /\ srv' \in [Folders -> Memory] /\ given' \in Keys /\ Ordered'
      /\ srv'[f].oldKey = 0 /\ \A g \in Folders \ {f} : srv'[g] = srv[g]
      /\ \A key \in Keys : \A content, mail :
            Holds(srv[f], content, key, mail) => Holds(srv'[f], content, key, mail)
  BY StartOverFacts DEF OtherSession, IInv
<1>c. ASSUME NEW g \in Folders
      PROVE  /\ \A key \in Keys : \A content, mail :
                   Holds(srv[g], content, key, mail) => Holds(srv'[g], content, key, mail)
             /\ \A key : key # 0 /\ key # srv[g].oldKey => key # srv'[g].oldKey
  BY <1>b
<1>1. Types'
  BY <1>a, <1>b DEF IInv, Types
<1>2. Views'
  <2>1. \A g \in Folders : coll[g].key \in Keys
    BY DEF IInv, Types, Collections
  <2> QED BY <1>a, <1>c, <2>1 DEF IInv, Views, Listed
<1>3. Works'
  <2>1. ASSUME NEW g \in Folders, Listing(g)
        PROVE  Listing(g)'
    <3>1. wire[g].is = "page" => wire[g].key \in Keys
      BY <2>1 DEF Listing, Plain, Pages
    <3> QED BY <1>a, <1>c, <2>1, <3>1 DEF Listing
  <2>2. ASSUME job.does = "change"
        PROVE  Changing(job.folder)'
    <3>1. job.folder \in Folders /\ job.kept.key \in Keys
      BY <2>2, JobKinds DEF IInv, PropChanges, Collections
    <3>2. wire[job.folder].is \in {"done", "missing", "rejected"} => wire[job.folder].key \in Keys
      BY <2>2 DEF IInv, Works, Changing, Plain, Verdicts
    <3>3. \A s : Restored(s)' = Restored(s)
      BY <1>a DEF Restored
    <3> QED BY <1>a, <1>c, <2>2, <3>1, <3>2, <3>3 DEF IInv, Works, Changing
  <2>3. ASSUME job.does = "move"
        PROVE  Moving(job.folder)'
    BY <1>a, <2>3 DEF IInv, Works, Moving
  <2> QED BY <1>a, <2>1, <2>2, <2>3 DEF IInv, Works, Quiet, Answer
<1> QED BY <1>1, <1>2, <1>3, <1>b DEF IInv

----
(* Exchange answers *)

\* An answer to one folder's request leaves the others' alone.
LEMMA ReplyFacts ==
    ASSUME Types, NEW f \in Folders, NEW answer \in Plain \cup Pages \cup Verdicts \cup Moved, Reply(f, answer)
    PROVE  /\ wire' \in [Folders -> Plain \cup Pages \cup Verdicts \cup Moved]
           /\ wire'[f] = answer /\ \A g \in Folders \ {f} : wire'[g] = wire[g]
<1> DEFINE All == Plain \cup Pages \cup Verdicts \cup Moved
<1>1. wire \in [Folders -> All] /\ answer \in All /\ wire' = [wire EXCEPT ![f] = answer]
  BY DEF Types, Reply
<1> HIDE DEF All
<1>2. /\ wire' \in [Folders -> All]
      /\ wire'[f] = answer /\ \A g \in Folders \ {f} : wire'[g] = wire[g]
  BY <1>1
<1> QED BY <1>2 DEF All

\* An answer without changes patches nothing.
LEMMA NoChanges ==
    ASSUME NEW mail \in Mailbox
    PROVE  <<>> \in Changes /\ Patched(mail, <<>>) = mail
<1>1. DOMAIN <<>> = {} /\ <<>> \in [{} -> Content]
  OBVIOUS
<1> QED BY <1>1 DEF Changes, Patched, Mailbox

\* Messages of each kind.
LEMMA Messages ==
    /\ Sent \in Plain /\ Sent.is = "sent"
    /\ \A what \in {"none", "sent", "policy", "error", "invalid", "stale"} :
          Answer(what) \in Plain /\ Answer(what).is = what
    /\ \A what \in {"done", "missing", "rejected"}, key \in Keys :
          /\ WithKey(what, key) \in Verdicts
          /\ WithKey(what, key).is = what /\ WithKey(what, key).key = key
    /\ \A key \in Keys, changes \in Changes, more \in BOOLEAN :
          /\ Page(key, changes, more) \in Pages /\ Page(key, changes, more).is = "page"
          /\ Page(key, changes, more).key = key /\ Page(key, changes, more).changes = changes
          /\ Page(key, changes, more).more = more
BY DEF Sent, Answer, WithKey, Page, Plain, Verdicts, Pages

\* The page that tells nothing.
LEMMA EmptyPage ==
    ASSUME NEW key \in Keys
    PROVE  /\ Page(key, <<>>, FALSE) \in Pages /\ Page(key, <<>>, FALSE).key = key
           /\ Page(key, <<>>, FALSE).changes = <<>>
<1>1. <<>> \in Changes
  BY NoChanges, Constants
<1> QED BY <1>1 DEF Page, Pages

\* Whatever Exchange does with a listing request: what the session holds stays a
\* copy, and the answer leads to one.
LEMMA SyncKeeps ==
    ASSUME IInv, NEW f \in Folders, Asked(f, "list"), UNCHANGED <<box, news, coll, job, ran>>,
           srv' \in [Folders -> Memory], given' \in Keys, Ordered',
           \A g \in Folders \ {f} : srv'[g] = srv[g],
           Holds(srv'[f], box[f], coll[f].key, coll[f].mail),
           \/ wire' = wire
           \/ \E answer \in Plain \cup Pages :
                 /\ Reply(f, answer)
                 /\ answer.is = "page" =>
                        /\ answer.key # 0 /\ answer.key # srv'[f].oldKey
                        /\ Holds(srv'[f], box[f], answer.key, Patched(coll[f].mail, answer.changes))
    PROVE  IInv'
<1>a. /\ wire[f] = Sent /\ job.does = "list" /\ ~coll[f].complete
  BY Messages DEF Asked, IInv, Works, Listing
<1>b. /\ wire' \in [Folders -> Plain \cup Pages \cup Verdicts \cup Moved]
      /\ wire'[f] \in Plain \cup Pages
      /\ wire'[f].is = "page" =>
            /\ wire'[f].key # 0 /\ wire'[f].key # srv'[f].oldKey
            /\ Holds(srv'[f], box[f], wire'[f].key, Patched(coll[f].mail, wire'[f].changes))
      /\ \A g \in Folders \ {f} : wire'[g] = wire[g]
  <2>1. CASE wire' = wire
    BY <1>a, <2>1, Messages DEF IInv, Types
  <2>2. CASE wire' # wire
    <3>1. PICK answer \in Plain \cup Pages :
             /\ Reply(f, answer)
             /\ answer.is = "page" =>
                    /\ answer.key # 0 /\ answer.key # srv'[f].oldKey
                    /\ Holds(srv'[f], box[f], answer.key, Patched(coll[f].mail, answer.changes))
      BY <2>2
    <3>2. wire'[f] = answer
      BY <3>1, ReplyFacts DEF IInv
    <3> QED BY <3>1, <3>2, ReplyFacts DEF IInv
  <2> QED BY <2>1, <2>2
<1>1. Types'
  BY <1>b DEF IInv, Types
<1>2. Views'
  BY <1>a DEF IInv, Views, Listed
<1>3. Works'
  <2>1. job' # NoJob /\ job'.does = "list"
    BY <1>a, JobKinds DEF IInv
  <2>2. ASSUME NEW g \in Folders
        PROVE  Listing(g)'
    <3>1. CASE g = f
      BY <1>a, <1>b, <3>1 DEF Listing
    <3>2. CASE g # f
      BY <1>a, <1>b, <3>2 DEF IInv, Works, Listing
    <3> QED BY <3>1, <3>2
  <2> QED BY <2>1, <2>2 DEF Works
<1> QED BY <1>1, <1>2, <1>3 DEF IInv

\* A page that tells changes since a view which the session's copy follows.
LEMMA TellKeeps ==
    ASSUME IInv, NEW f \in Folders, Asked(f, "list"), UNCHANGED <<box, news, coll, job, ran>>,
           NEW view \in Mailbox, Follows(box[f], coll[f].mail, view), coll[f].key # 0,
           NEW changed \in SUBSET Mails, NEW more \in BOOLEAN,
           TellChanges(f, coll[f].key, view, changed),
           wire' = wire \/ Reply(f, Page(srv[f].last + 1, [m \in changed |-> box[f][m]], more))
    PROVE  IInv'
<1> DEFINE changes == [m \in changed |-> box[f][m]]
           seen == [m \in Mails |-> IF m \in changed THEN box[f][m] ELSE view[m]]
           n == srv[f].last + 1
<1>1. /\ coll[f].key \in Keys /\ coll[f].mail \in Mailbox /\ box[f] \in Mailbox /\ srv[f] \in Memory
      /\ coll[f].key <= srv[f].last
  BY DEF IInv, Types, Collections, Views, Listed, Holds
<1>2. seen \in Mailbox /\ changes \in Changes
  BY <1>1 DEF Mailbox, Changes
<1>3. NextKey(f, seen, coll[f].key, view)
  BY DEF TellChanges
<1> HIDE DEF seen
<1>4. /\ srv' \in [Folders -> Memory] /\ given' \in Keys /\ Ordered' /\ n \in Keys /\ n # 0
      /\ srv'[f] \in Memory /\ srv'[f].last = n /\ srv'[f].key = n /\ srv'[f].seen = seen
      /\ srv'[f].oldKey = coll[f].key /\ srv'[f].oldSeen = view
      /\ \A g \in Folders \ {f} : srv'[g] = srv[g]
  BY <1>1, <1>2, <1>3, NextKeyFacts DEF IInv
<1>5. /\ Holds(srv'[f], box[f], coll[f].key, coll[f].mail)
      /\ Holds(srv'[f], box[f], n, Patched(coll[f].mail, changes))
  BY <1>1, <1>4, ToldHolds DEF seen
<1>6. n # srv'[f].oldKey
  BY <1>1, <1>4, Constants DEF Memory, Keys
<1> HIDE DEF n, changes
<1>7. \/ wire' = wire
      \/ \E answer \in Plain \cup Pages :
            /\ Reply(f, answer)
            /\ answer.is = "page" =>
                   /\ answer.key # 0 /\ answer.key # srv'[f].oldKey
                   /\ Holds(srv'[f], box[f], answer.key, Patched(coll[f].mail, answer.changes))
  <2>1. CASE wire' = wire
    BY <2>1
  <2>2. CASE Reply(f, Page(n, changes, more))
    <3>1. /\ Page(n, changes, more) \in Pages /\ Page(n, changes, more).key = n
          /\ Page(n, changes, more).changes = changes
      BY <1>2, <1>4, Messages
    <3> QED BY <1>4, <1>5, <1>6, <2>2, <3>1
  <2> QED BY <2>1, <2>2 DEF n, changes
<1> QED BY <1>4, <1>5, <1>7, SyncKeeps

\* The branches of an answer to a listing request.
LEMMA AnswerSyncKeeps ==
    ASSUME IInv, NEW f \in Folders, NEW heard \in BOOLEAN, AnswerSync(f, heard)
    PROVE  IInv'
<1> DEFINE key == coll[f].key
           Told(view) == \E changed \in SUBSET Unknown(f, view) :
              /\ TellChanges(f, key, view, changed)
              /\ wire' = wire \/ Reply(f, Page(srv[f].last + 1, [m \in changed |-> box[f][m]],
                                               changed # Unknown(f, view)))
           Heard(answer) == wire' = wire \/ Reply(f, answer)
<1>a. Asked(f, "list") /\ UNCHANGED <<box, news, coll, job, ran>>
  BY DEF AnswerSync
<1>b. /\ key \in Keys /\ coll[f].mail \in Mailbox /\ box[f] \in Mailbox /\ srv[f] \in Memory
      /\ Holds(srv[f], box[f], key, coll[f].mail) /\ InOrder(srv[f])
      /\ srv \in [Folders -> Memory] /\ given \in Keys /\ Ordered
  BY DEF IInv, Types, Collections, Views, Listed, Ordered
<1>c. <<>> \in Changes /\ Patched(coll[f].mail, <<>>) = coll[f].mail
  BY <1>b, NoChanges
<1>1. CASE key = 0 /\ StartOver(f) /\ Heard(Page(srv[f].last + 1, <<>>, FALSE))
  <2> DEFINE n == srv[f].last + 1
  <2>1. /\ srv' \in [Folders -> Memory] /\ given' \in Keys /\ Ordered' /\ n \in Keys /\ n # 0
        /\ srv'[f].key = n /\ srv'[f].seen = Empty /\ srv'[f].oldKey = 0
        /\ \A g \in Folders \ {f} : srv'[g] = srv[g]
        /\ Holds(srv'[f], box[f], key, coll[f].mail)
    BY <1>1, <1>b, StartOverFacts DEF IInv
  <2>2. coll[f].mail = Empty
    BY <1>1 DEF IInv, Views, Listed
  <2>3. n <= srv'[f].last
    BY <2>1 DEF Ordered, InOrder
  <2>4. Holds(srv'[f], box[f], n, coll[f].mail)
    BY <2>1, <2>2, <2>3 DEF Holds, Follows
  <2> HIDE DEF n
  <2>5. /\ Page(n, <<>>, FALSE) \in Pages /\ Page(n, <<>>, FALSE).key = n
        /\ Page(n, <<>>, FALSE).changes = <<>>
    BY <2>1, EmptyPage
  <2>6. Heard(Page(n, <<>>, FALSE))
    BY <1>1 DEF n
  <2> QED BY <1>a, <1>c, <2>1, <2>4, <2>5, <2>6, SyncKeeps
<1>2. CASE key # 0 /\ key = srv[f].key /\ Told(srv[f].seen)
  <2>1. srv[f].seen \in Mailbox /\ Follows(box[f], coll[f].mail, srv[f].seen)
    BY <1>b, <1>2 DEF Memory, Holds
  <2>2. Unknown(f, srv[f].seen) \subseteq Mails
    BY DEF Unknown
  <2> QED BY <1>2, <1>a, <2>1, <2>2, TellKeeps
<1>3. CASE /\ key # 0 /\ key = srv[f].key
           /\ Reply(f, Page(key, <<>>, FALSE)) /\ UNCHANGED exchange
  <2>1. key # srv[f].oldKey
    BY <1>b, <1>3, Constants DEF InOrder, Memory, Keys
  <2>2. srv' = srv /\ given' = given /\ Ordered'
    BY <1>b, <1>3 DEF exchange, Ordered, InOrder
  <2>3. /\ Page(key, <<>>, FALSE) \in Pages /\ Page(key, <<>>, FALSE).key = key
        /\ Page(key, <<>>, FALSE).changes = <<>>
    BY <1>b, EmptyPage
  <2> QED BY <1>3, <1>a, <1>b, <1>c, <2>1, <2>2, <2>3, SyncKeeps
<1>4. CASE key # 0 /\ key = srv[f].oldKey /\ Told(srv[f].oldSeen)
  <2>1. srv[f].oldSeen \in Mailbox /\ Follows(box[f], coll[f].mail, srv[f].oldSeen)
    BY <1>b, <1>4 DEF Memory, Holds
  <2>2. Unknown(f, srv[f].oldSeen) \subseteq Mails
    BY DEF Unknown
  <2> QED BY <1>4, <1>a, <2>1, <2>2, TellKeeps
<1>5. CASE /\ key # 0 /\ key = srv[f].oldKey
           /\ GoBack(f) /\ Heard(Page(key, <<>>, FALSE))
  <2> DEFINE s == [srv[f] EXCEPT !.key = srv[f].oldKey, !.seen = srv[f].oldSeen, !.oldKey = 0, !.oldSeen = Empty]
  <2>1. /\ s \in Memory /\ s.last = srv[f].last /\ s.key = key /\ s.seen = srv[f].oldSeen
        /\ s.oldKey = 0
    BY <1>b, <1>5, Constants DEF Memory
  <2>2. srv' = [srv EXCEPT ![f] = s] /\ given' = given
    BY <1>5, <1>b DEF GoBack, Memory
  <2> HIDE DEF s
  <2>3. /\ srv' \in [Folders -> Memory] /\ srv'[f] = s
        /\ \A g \in Folders \ {f} : srv'[g] = srv[g]
    BY <1>b, <2>1, <2>2
  <2>4. Holds(s, box[f], key, coll[f].mail) /\ InOrder(s)
    BY <1>b, <1>5, <2>1 DEF Holds, InOrder
  <2>5. Ordered'
    BY <1>b, <2>2, <2>3, <2>4 DEF Ordered, InOrder
  <2>6. /\ Page(key, <<>>, FALSE) \in Pages /\ Page(key, <<>>, FALSE).key = key
        /\ Page(key, <<>>, FALSE).changes = <<>>
    BY <1>b, EmptyPage
  <2>7. Page(key, <<>>, FALSE).key # 0 /\ Page(key, <<>>, FALSE).key # srv'[f].oldKey
    BY <1>5, <2>1, <2>3, <2>6
  <2>8. Holds(srv'[f], box[f], Page(key, <<>>, FALSE).key, Patched(coll[f].mail, Page(key, <<>>, FALSE).changes))
    BY <1>c, <2>3, <2>4, <2>6
  <2>9. /\ Holds(srv'[f], box[f], coll[f].key, coll[f].mail)
        /\ Heard(Page(key, <<>>, FALSE)) /\ given' \in Keys
    BY <1>5, <1>b, <2>2, <2>3, <2>4
  <2> QED BY <1>a, <2>3, <2>5, <2>6, <2>7, <2>8, <2>9, SyncKeeps
<1>6. CASE Reply(f, Answer("invalid")) /\ UNCHANGED exchange
  <2>1. srv' = srv /\ given' = given /\ Ordered'
    BY <1>b, <1>6 DEF exchange, Ordered, InOrder
  <2>2. Answer("invalid") \in Plain /\ Answer("invalid").is # "page"
    BY Messages
  <2> QED BY <1>6, <1>a, <1>b, <2>1, <2>2, SyncKeeps
<1>7. \A view : (\E changed \in SUBSET Unknown(f, view) :
          /\ TellChanges(f, key, view, changed)
          /\ IF heard THEN Reply(f, Page(srv[f].last + 1, [m \in changed |-> box[f][m]],
                                         changed # Unknown(f, view)))
                      ELSE UNCHANGED wire) => Told(view)
  OBVIOUS
<1> QED BY <1>1, <1>2, <1>3, <1>4, <1>5, <1>6, <1>7 DEF AnswerSync

\* A request that Exchange does not look at.
LEMMA AnswerFailsKeeps ==
    ASSUME IInv, NEW f \in Folders, AnswerFails(f)
    PROVE  IInv'
<1>1. PICK answer \in {"policy", "error"} : Reply(f, Answer(answer))
  BY DEF AnswerFails
<1>2. Answer(answer) \in Plain /\ Answer(answer).is # "page"
  BY Messages
<1>3. srv' = srv /\ given' = given /\ Ordered' /\ Holds(srv[f], box[f], coll[f].key, coll[f].mail)
  BY DEF AnswerFails, exchange, IInv, Ordered, InOrder, Views, Listed
<1> QED BY <1>1, <1>2, <1>3, SyncKeeps DEF AnswerFails, IInv, Types

\* A verdict on a change, with what FinishChange will put back.
LEMMA VerdictKeeps ==
    ASSUME IInv, NEW f \in Folders, Asked(f, "change"), UNCHANGED <<news, coll, job>>,
           box' \in [Folders -> Mailbox], \A g \in Folders \ {f} : box'[g] = box[g],
           srv' \in [Folders -> Memory], given' \in Keys, Ordered',
           \A g \in Folders \ {f} : srv'[g] = srv[g],
           NEW answer \in Plain \cup Verdicts, Reply(f, answer), ran' \in BOOLEAN,
           answer.is \in {"done", "missing", "rejected", "stale"}, ran' <=> answer.is = "done",
           answer.is # "stale" =>
               /\ answer.key # 0 /\ answer.key # srv'[f].oldKey
               /\ Holds(srv'[f], box'[f], answer.key, Restored(answer.is))
    PROVE  IInv'
<1>a. /\ wire[f] = Sent /\ job.does = "change" /\ wire[f].is = "sent"
  BY Messages DEF Asked
<1>b. /\ job \in PropChanges /\ f = job.folder /\ coll[f] = NewCollection /\ job.kept.mail[job.mail] # 0
  BY <1>a, JobKinds, Messages DEF IInv, Works, Changing, PropChanges
<1>c. /\ wire' \in [Folders -> Plain \cup Pages \cup Verdicts \cup Moved]
      /\ wire'[f] = answer /\ \A g \in Folders \ {f} : wire'[g] = wire[g]
  BY ReplyFacts DEF IInv
<1>1. Types'
  BY <1>c DEF IInv, Types
<1>2. Views'
  <2>1. ASSUME NEW g \in Folders
        PROVE  Listed(g)'
    <3>1. CASE g = f
      <4>1. coll'[f].key = 0 /\ coll'[f].mail = Empty /\ ~coll'[f].complete
        BY <1>b DEF NewCollection
      <4>2. 0 <= srv'[f].last
        BY Constants DEF Memory, Keys
      <4> QED BY <3>1, <4>1, <4>2 DEF Listed, Holds
    <3>2. CASE g # f
      BY <3>2 DEF IInv, Views, Listed
    <3> QED BY <3>1, <3>2
  <2> QED BY <2>1 DEF Views
<1>3. Works'
  <2>1. job' # NoJob /\ job'.does = "change"
    BY <1>a, JobKinds DEF IInv
  <2>2. \A s : Restored(s)' = Restored(s)
    BY DEF Restored
  <2>3. Changing(f)'
    <3> HIDE DEF Restored
    <3> QED BY <1>b, <1>c, <2>2 DEF Changing
  <2> QED BY <1>a, <1>b, <1>c, <2>1, <2>3 DEF IInv, Works
<1> QED BY <1>1, <1>2, <1>3 DEF IInv

\* The branches of an answer to a change: under a key that cannot be the one
\* before the last, Exchange never takes the change for a repetition.
LEMMA AnswerChangeKeeps ==
    ASSUME IInv, NEW f \in Folders, AnswerChange(f)
    PROVE  IInv'
<1> DEFINE key == job.kept.key
           m == job.mail
           s == srv[f]
           n == srv[f].last + 1
<1>a. /\ Asked(f, "change") /\ UNCHANGED <<news, coll, job>> /\ job.does = "change" /\ wire[f].is = "sent"
  BY Messages DEF AnswerChange, Asked
<1>b. /\ job \in PropChanges /\ f = job.folder
  BY <1>a, JobKinds, Messages DEF IInv, Works, PropChanges
<1>c. /\ ~ran /\ key # 0 /\ key # s.oldKey /\ Holds(s, box[f], key, job.kept.mail)
      /\ job.kept.mail[m] # 0
  BY <1>a, <1>b DEF IInv, Works, Changing
<1>d. /\ key \in Keys /\ m \in Mails /\ job.value \in Content /\ job.kept.mail \in Mailbox
      /\ box[f] \in Mailbox /\ s \in Memory /\ s.seen \in Mailbox /\ box \in [Folders -> Mailbox]
      /\ srv \in [Folders -> Memory] /\ given \in Keys /\ Ordered /\ key <= s.last /\ s.last \in Nat
  BY <1>b, <1>c, Constants DEF PropChanges, Collections, IInv, Types, Memory, Keys, Holds
<1>1. CASE /\ key = s.key /\ box[f][m] = s.seen[m]
           /\ box' = [box EXCEPT ![f][m] = job.value] /\ ran' = TRUE
           /\ NextKey(f, [s.seen EXCEPT ![m] = job.value], key, s.seen)
           /\ Reply(f, WithKey("done", n))
  <2> DEFINE seen == [s.seen EXCEPT ![m] = job.value]
             mail == [job.kept.mail EXCEPT ![m] = job.value]
  <2>1. seen \in Mailbox
    BY <1>d DEF Mailbox
  <2>2. /\ srv' \in [Folders -> Memory] /\ given' \in Keys /\ Ordered' /\ n \in Keys /\ n # 0
        /\ srv'[f].last = n /\ srv'[f].key = n /\ srv'[f].seen = seen /\ srv'[f].oldKey = key
        /\ \A g \in Folders \ {f} : srv'[g] = srv[g]
    BY <1>1, <1>d, <2>1, NextKeyFacts DEF IInv
  <2>3. /\ box' \in [Folders -> Mailbox] /\ \A g \in Folders \ {f} : box'[g] = box[g]
        /\ \A x \in Mails \ {m} : box'[f][x] = box[f][x]
    BY <1>1, <1>d DEF Mailbox
  <2>4. Follows(box[f], job.kept.mail, s.seen)
    BY <1>1, <1>c DEF Holds
  <2>5. Follows(box'[f], mail, seen)
    BY <1>d, <2>3, <2>4 DEF Follows, Mailbox
  <2>6. n # srv'[f].oldKey
    BY <1>d, <2>2, Constants DEF Keys
  <2> HIDE DEF seen, mail, n
  <2>7. n <= srv'[f].last
    BY <1>d, <2>2 DEF n
  <2>8. Holds(srv'[f], box'[f], n, mail)
    BY <2>2, <2>5, <2>6, <2>7 DEF Holds
  <2>9. Restored("done") = mail
    BY DEF Restored, mail
  <2>10. /\ WithKey("done", n) \in Verdicts /\ WithKey("done", n).is = "done" /\ WithKey("done", n).key = n
         /\ Reply(f, WithKey("done", n))
    BY <1>1, <2>2, Messages DEF n
  <2> HIDE DEF Restored
  <2> QED BY <1>1, <1>a, <2>2, <2>3, <2>6, <2>8, <2>9, <2>10, VerdictKeeps
<1>2. CASE /\ key = s.key /\ box[f][m] # s.seen[m]
           /\ NextKey(f, s.seen, key, s.seen)
           /\ Reply(f, WithKey(IF box[f][m] = 0 THEN "missing" ELSE "rejected", n))
           /\ UNCHANGED <<box, ran>>
  <2> DEFINE what == IF box[f][m] = 0 THEN "missing" ELSE "rejected"
  <2>1. /\ srv' \in [Folders -> Memory] /\ given' \in Keys /\ Ordered' /\ n \in Keys /\ n # 0
        /\ srv'[f].last = n /\ srv'[f].key = n /\ srv'[f].seen = s.seen /\ srv'[f].oldKey = key
        /\ \A g \in Folders \ {f} : srv'[g] = srv[g]
    BY <1>2, <1>d, NextKeyFacts DEF IInv
  <2>2. Follows(box[f], job.kept.mail, s.seen)
    BY <1>2, <1>c DEF Holds
  <2>3. Follows(box[f], Restored(what), s.seen)
    <3>1. CASE box[f][m] = 0
      <4>1. Restored(what) = [job.kept.mail EXCEPT ![m] = 0]
        BY <3>1 DEF Restored
      <4> QED BY <1>d, <2>2, <3>1, <4>1 DEF Follows, Mailbox
    <3>2. CASE box[f][m] # 0
      <4>1. Restored(what) = job.kept.mail
        BY <3>2 DEF Restored
      <4> QED BY <2>2, <4>1
    <3> QED BY <3>1, <3>2
  <2>4. n # srv'[f].oldKey /\ n <= srv'[f].last
    BY <1>d, <2>1, Constants DEF Keys
  <2>5. what \in {"missing", "rejected"} /\ Reply(f, WithKey(what, n))
    BY <1>2
  <2> HIDE DEF n, what, Restored
  <2>6. Holds(srv'[f], box'[f], n, Restored(what))
    BY <1>2, <2>1, <2>3, <2>4 DEF Holds
  <2>7. /\ WithKey(what, n) \in Verdicts /\ WithKey(what, n).is = what /\ WithKey(what, n).key = n
    BY <2>1, <2>5, Messages
  <2>8. /\ WithKey(what, n) \in Plain \cup Verdicts
        /\ WithKey(what, n).is \in {"done", "missing", "rejected", "stale"}
        /\ WithKey(what, n).is # "done"
    BY <2>5, <2>7
  <2>9. ran' = ran /\ box' = box
    BY <1>2
  <2>10. /\ ran' \in BOOLEAN /\ (ran' <=> WithKey(what, n).is = "done")
         /\ box' \in [Folders -> Mailbox] /\ \A g \in Folders \ {f} : box'[g] = box[g]
    BY <1>c, <1>d, <2>8, <2>9 DEF IInv, Types
  <2>11. /\ WithKey(what, n).key # 0 /\ WithKey(what, n).key # srv'[f].oldKey
         /\ Holds(srv'[f], box'[f], WithKey(what, n).key, Restored(WithKey(what, n).is))
    BY <2>1, <2>4, <2>6, <2>7
  <2> QED BY <1>a, <2>1, <2>5, <2>8, <2>10, <2>11, VerdictKeeps
<1>3. CASE Reply(f, Answer("stale")) /\ UNCHANGED <<box, exchange, ran>>
  <2>1. srv' = srv /\ given' = given /\ Ordered' /\ box' = box /\ ran' = ran
    BY <1>d, <1>3 DEF exchange, Ordered, InOrder
  <2>2. Answer("stale") \in Plain /\ Answer("stale").is = "stale"
    BY Messages
  <2>3. /\ ran' \in BOOLEAN /\ (ran' <=> Answer("stale").is = "done")
        /\ box' \in [Folders -> Mailbox] /\ \A g \in Folders \ {f} : box'[g] = box[g]
        /\ srv' \in [Folders -> Memory] /\ given' \in Keys /\ \A g \in Folders \ {f} : srv'[g] = srv[g]
    BY <1>c, <1>d, <2>1, <2>2 DEF IInv, Types
  <2> HIDE DEF Restored
  <2> QED BY <1>3, <1>a, <2>1, <2>2, <2>3, VerdictKeeps
<1> QED BY <1>1, <1>2, <1>3, <1>c DEF AnswerChange

\* A move gives the mail an id that nobody mentions, and takes the old one away.
LEMMA AnswerMoveKeeps ==
    ASSUME IInv, NEW f \in Folders, AnswerMove(f)
    PROVE  IInv'
<1> DEFINE m == job.mail
           g == job.value
<1>a. /\ wire[f].is = "sent" /\ job.does = "move" /\ srv' = srv /\ given' = given
      /\ news' = news /\ coll' = coll /\ job' = job
  BY Messages DEF AnswerMove, Asked, exchange
<1>b. /\ job \in Moves /\ f = job.folder /\ m \in Mails /\ g \in Folders /\ g # f /\ ~ran /\ job # NoJob
      /\ \A h \in Folders \ {f} : wire[h] = Answer("none")
  BY <1>a, JobKinds, Messages DEF IInv, Works, Moving, Moves
<1>c. box \in [Folders -> Mailbox] /\ box[f] \in Mailbox /\ box[g] \in Mailbox
  BY <1>b DEF IInv, Types
<1>1. CASE \E new \in {x \in Mails : Unused(g, x)} :
              /\ box' = [box EXCEPT ![f][m] = 0, ![g][new] = box[f][m]]
              /\ Reply(f, [is |-> "done", new |-> new]) /\ ran' = TRUE
  <2>1. PICK new \in Mails : /\ Unused(g, new)
                             /\ box' = [box EXCEPT ![f][m] = 0, ![g][new] = box[f][m]]
                             /\ Reply(f, [is |-> "done", new |-> new]) /\ ran' = TRUE
    BY <1>1
  <2> DEFINE answer == [is |-> "done", new |-> new]
             from == [box[f] EXCEPT ![m] = 0]
             to == [box[g] EXCEPT ![new] = box[f][m]]
  <2>2. answer \in Moved /\ answer.is = "done" /\ answer.new = new
    BY DEF Moved
  <2>3. from \in Mailbox /\ to \in Mailbox
    BY <1>b, <1>c, Constants DEF Mailbox
  <2>4. box' = [[box EXCEPT ![f] = from] EXCEPT ![g] = to]
    BY <1>b, <1>c, <2>1
  <2>5. /\ box' \in [Folders -> Mailbox] /\ box'[f] = from /\ box'[g] = to
        /\ \A h \in Folders \ {f, g} : box'[h] = box[h]
    <3> HIDE DEF from, to
    <3> QED BY <1>b, <1>c, <2>3, <2>4
  <2>6. ASSUME NEW h \in Folders, NEW key, NEW mail, Holds(srv[h], box[h], key, mail)
        PROVE  Holds(srv[h], box'[h], key, mail)
    <3>0. srv[h] \in Memory /\ box[h] \in Mailbox /\ box'[h] \in Mailbox
      BY <2>5 DEF IInv, Types
    <3>1. \A x \in Mails : box[h][x] = 0 /\ box'[h][x] # 0 => srv[h].seen[x] = 0 /\ srv[h].oldSeen[x] = 0
      <4>1. CASE h = f
        BY <1>b, <1>c, <2>5, <4>1 DEF Mailbox
      <4>2. CASE h = g
        BY <1>b, <1>c, <2>1, <2>5, <4>2 DEF Mailbox, Unused
      <4>3. CASE h \notin {f, g}
        BY <2>5, <4>3
      <4> QED BY <4>1, <4>2, <4>3
    <3> QED BY <2>6, <3>0, <3>1, ContentHolds
  <2>7. box'[f][m] = 0 /\ coll[g].mail[new] = 0
    BY <1>b, <1>c, <2>1, <2>5 DEF Mailbox, Unused
  <2> HIDE DEF from, to, answer
  <2>8. /\ wire' \in [Folders -> Plain \cup Pages \cup Verdicts \cup Moved]
        /\ wire'[f] = answer /\ \A h \in Folders \ {f} : wire'[h] = wire[h]
    BY <2>1, <2>2, ReplyFacts DEF IInv, answer
  <2>9. Types' /\ Ordered'
    BY <1>a, <2>1, <2>5, <2>8 DEF IInv, Types, Ordered, InOrder
  <2>10. Views'
    BY <1>a, <2>6 DEF IInv, Views, Listed
  <2>11. Moving(f)'
    BY <1>a, <1>b, <2>1, <2>2, <2>7, <2>8 DEF Moving
  <2> QED BY <1>a, <1>b, <2>8, <2>9, <2>10, <2>11, Messages DEF IInv, Works
<1>2. CASE Reply(f, Answer("stale")) /\ UNCHANGED <<box, ran>>
  <2>1. /\ wire' \in [Folders -> Plain \cup Pages \cup Verdicts \cup Moved]
        /\ wire'[f] = Answer("stale") /\ \A h \in Folders \ {f} : wire'[h] = wire[h]
    BY <1>2, Messages, ReplyFacts DEF IInv
  <2>2. Answer("stale") \in Plain /\ Answer("stale").is = "stale"
    BY Messages
  <2>3. Types' /\ Ordered' /\ Views'
    BY <1>a, <1>2, <2>1 DEF IInv, Types, Ordered, InOrder, Views, Listed
  <2>4. Moving(f)'
    BY <1>a, <1>b, <1>2, <2>1, <2>2 DEF IInv, Works, Moving
  <2> QED BY <1>a, <1>b, <2>1, <2>3, <2>4 DEF IInv, Works
<1> QED BY <1>1, <1>2 DEF AnswerMove

----
(* Sections under the session's mutex *)

\* A call that ends leaves nothing under way.
LEMMA LeaveKeeps ==
    ASSUME IInv, Leave, UNCHANGED <<box, exchange, news>>, coll' \in [Folders -> Collections],
           \A f \in Folders : Listed(f)'
    PROVE  IInv'
<1>1. /\ job' = NoJob /\ wire' = Quiet /\ ran' = FALSE
      /\ box' = box /\ srv' = srv /\ given' = given /\ news' = news
  BY DEF Leave, exchange
<1>2. Quiet \in [Folders -> Plain]
  BY DEF Quiet, Plain
<1>3. Types'
  BY <1>1, <1>2 DEF IInv, Types
<1>4. Ordered' /\ Views'
  BY <1>1 DEF IInv, Ordered, InOrder, Views
<1>5. Works'
  BY <1>1 DEF Works, NoJob
<1> QED BY <1>3, <1>4, <1>5 DEF IInv

\* A batch has a request for each folder asked, and nothing for the others.
LEMMA RequestFacts ==
    ASSUME NEW asked \in SUBSET Folders, Request(asked)
    PROVE  /\ wire' \in [Folders -> Plain]
           /\ \A f \in asked : wire'[f] = Sent
           /\ \A f \in Folders \ asked : wire'[f] = Answer("none")
BY Messages DEF Request

\* Preparing a collection only takes its readiness.
LEMMA PreparedFacts ==
    ASSUME NEW c \in Collections
    PROVE  /\ Prepared(c) \in Collections
           /\ Prepared(c).key = c.key /\ Prepared(c).mail = c.mail /\ Prepared(c).complete = FALSE
BY DEF Prepared, Collections

\* A new collection is a copy of nothing.
LEMMA NewIsListed ==
    ASSUME Types, NEW f \in Folders
    PROVE  /\ NewCollection \in Collections
           /\ Holds(srv[f], box[f], NewCollection.key, NewCollection.mail)
           /\ NewCollection.mail = Empty /\ ~NewCollection.complete /\ NewCollection.key = 0
<1>1. NewCollection.key = 0 /\ NewCollection.mail = Empty /\ ~NewCollection.complete
  BY DEF NewCollection
<1>2. NewCollection \in Collections
  BY Constants DEF NewCollection, Collections
<1>3. 0 <= srv[f].last
  BY Constants DEF Types, Memory, Keys
<1> QED BY <1>1, <1>2, <1>3 DEF Holds

\* Patching a mailbox gives a mailbox.
LEMMA PatchedMailbox ==
    ASSUME NEW mail \in Mailbox, NEW changes \in Changes
    PROVE  Patched(mail, changes) \in Mailbox
<1>1. PICK S \in SUBSET Mails : changes \in [S -> Content]
  BY DEF Changes
<1>2. \A m \in Mails : (IF m \in DOMAIN changes THEN changes[m] ELSE mail[m]) \in Content
  BY <1>1 DEF Mailbox
<1> QED BY <1>2 DEF Patched, Mailbox

\* Whatever the answer was, the collection made from it is a copy.
LEMMA ReceivedFacts ==
    ASSUME IInv, job.does = "list", NEW f \in Folders
    PROVE  /\ Received(coll[f], wire[f]) \in Collections
           /\ Holds(srv[f], box[f], Received(coll[f], wire[f]).key, Received(coll[f], wire[f]).mail)
           /\ Received(coll[f], wire[f]).key = 0 => Received(coll[f], wire[f]).mail = Empty
           /\ Received(coll[f], wire[f]).complete =>
                 /\ Received(coll[f], wire[f]).key # 0
                 /\ Received(coll[f], wire[f]).key # srv[f].oldKey
<1>a. Listing(f) /\ Listed(f) /\ coll[f] \in Collections /\ coll[f].mail \in Mailbox
  BY DEF IInv, Works, Views, Types, Collections
<1>1. CASE wire[f].is = "page"
  <2> DEFINE c == Received(coll[f], wire[f])
             mail == Patched(coll[f].mail, wire[f].changes)
             more == ~NeedsNext(coll[f], wire[f])
  <2>1. wire[f] \in Pages /\ wire[f].key \in Keys /\ wire[f].changes \in Changes /\ wire[f].more \in BOOLEAN
    BY <1>a, <1>1 DEF Listing, Plain, Pages
  <2>2. mail \in Mailbox
    BY <1>a, <2>1, PatchedMailbox
  <2>3. more \in BOOLEAN
    BY DEF NeedsNext
  <2>4. c = [key |-> wire[f].key, complete |-> more, mail |-> mail]
    BY <1>1 DEF Received
  <2> HIDE DEF mail, more, c
  <2>5. c \in Collections /\ c.key = wire[f].key /\ c.mail = mail
    BY <2>1, <2>2, <2>3, <2>4 DEF Collections
  <2>6. /\ wire[f].key # 0 /\ wire[f].key # srv[f].oldKey
        /\ Holds(srv[f], box[f], wire[f].key, mail)
    BY <1>a, <1>1 DEF Listing, mail
  <2> QED BY <2>5, <2>6 DEF c
<1>2. CASE wire[f].is = "invalid"
  <2>1. Received(coll[f], wire[f]) = NewCollection
    BY <1>2 DEF Received
  <2> QED BY <2>1, NewIsListed DEF IInv
<1>3. CASE wire[f].is \notin {"page", "invalid"}
  <2>1. Received(coll[f], wire[f]) = coll[f]
    BY <1>3 DEF Received
  <2> QED BY <1>a, <2>1 DEF Listed
<1> QED BY <1>1, <1>2, <1>3

\* Asking for folders makes their collections unready, and nothing else.
LEMMA BatchKeeps ==
    ASSUME IInv, UNCHANGED <<box, exchange, news>>, NEW asked \in SUBSET Folders, Request(asked),
           ran' = ran, job' \in Lists, coll' \in [Folders -> Collections],
           \A f \in Folders : Listed(f)', \A f \in asked : ~coll'[f].complete
    PROVE  IInv'
<1>1. box' = box /\ srv' = srv /\ given' = given /\ news' = news
  BY DEF exchange
<1>2. /\ wire' \in [Folders -> Plain]
      /\ \A f \in Folders : f \in asked \/ wire'[f].is = "none"
      /\ \A f \in Folders : wire'[f].is # "page"
  BY RequestFacts, Messages
<1>3. Types'
  BY <1>1, <1>2 DEF IInv, Types
<1>4. Ordered' /\ Views'
  BY <1>1 DEF IInv, Ordered, InOrder, Views
<1>5. \A f \in Folders : Listing(f)'
  BY <1>2 DEF Listing
<1>6. job' # NoJob /\ job'.does = "list"
  BY DEF Lists, NoJob
<1>7. Works'
  BY <1>5, <1>6 DEF Works
<1> QED BY <1>3, <1>4, <1>7 DEF IInv

\* The first batch of a listing.
LEMMA StartListKeeps ==
    ASSUME IInv, NEW asked \in SUBSET Folders, StartList(asked)
    PROVE  IInv'
<1>1. /\ UNCHANGED <<box, exchange, news>> /\ Request(asked) /\ ran' = ran
      /\ job' = [does |-> "list", round |-> 1]
      /\ coll' = [f \in Folders |-> IF f \in asked THEN Prepared(coll[f]) ELSE coll[f]]
  BY DEF StartList, Enter
<1>2. job' \in Lists
  BY <1>1 DEF Lists
<1>3. ASSUME NEW f \in Folders
      PROVE  coll'[f] \in Collections /\ Listed(f)' /\ (f \in asked => ~coll'[f].complete)
  <2>1. coll[f] \in Collections /\ Listed(f)
    BY DEF IInv, Types, Views
  <2>2. coll'[f] = IF f \in asked THEN Prepared(coll[f]) ELSE coll[f]
    BY <1>1
  <2>3. coll'[f].key = coll[f].key /\ coll'[f].mail = coll[f].mail /\ coll'[f] \in Collections
        /\ (f \in asked => ~coll'[f].complete) /\ (coll'[f].complete => coll[f].complete)
    BY <2>1, <2>2, PreparedFacts
  <2>4. box' = box /\ srv' = srv
    BY <1>1 DEF exchange
  <2> QED BY <2>1, <2>3, <2>4 DEF Listed
<1>4. coll' \in [Folders -> Collections]
  BY <1>1, <1>3
<1> QED BY <1>1, <1>2, <1>3, <1>4, BatchKeeps

\* The answers of a batch become collections; the next one asks again.
LEMMA ProcessKeeps ==
    ASSUME IInv, Process
    PROVE  IInv'
<1> DEFINE asked == {f \in Folders : wire[f].is # "none"}
           failed == {f \in asked : wire[f].is = "error"}
           handled == {f \in asked : \A b \in failed : f < b}
           received == [f \in Folders |-> IF f \in handled THEN Received(coll[f], wire[f]) ELSE coll[f]]
           again == {f \in handled : wire[f].is = "page" => NeedsNext(coll[f], wire[f])}
           next == [f \in Folders |-> IF f \in again THEN Prepared(received[f]) ELSE received[f]]
<1>a. /\ job.does = "list" /\ UNCHANGED <<box, exchange, news>>
      /\ \/ coll' = received /\ Leave
         \/ /\ coll' = next /\ Request(again)
            /\ job' = [job EXCEPT !.round = @ + 1] /\ ran' = ran
  BY DEF Process
<1>b. box' = box /\ srv' = srv
  BY <1>a DEF exchange
<1>c. again \subseteq Folders
  OBVIOUS
<1> HIDE DEF handled, again
<1>d. ASSUME NEW f \in Folders
      PROVE  /\ received[f] \in Collections
             /\ Holds(srv[f], box[f], received[f].key, received[f].mail)
             /\ received[f].key = 0 => received[f].mail = Empty
             /\ received[f].complete => received[f].key # 0 /\ received[f].key # srv[f].oldKey
  <2>1. CASE f \in handled
    <3>1. received[f] = Received(coll[f], wire[f])
      BY <2>1
    <3> QED BY <1>a, <3>1, ReceivedFacts
  <2>2. CASE f \notin handled
    <3>1. received[f] = coll[f]
      BY <2>2
    <3> QED BY <3>1 DEF IInv, Types, Views, Listed
  <2> QED BY <2>1, <2>2
<1>1. CASE coll' = received /\ Leave
  <2>1. \A f \in Folders : coll'[f] \in Collections /\ Listed(f)'
    BY <1>1, <1>b, <1>d DEF Listed
  <2>2. coll' \in [Folders -> Collections]
    BY <1>1, <2>1
  <2> QED BY <1>1, <1>a, <2>1, <2>2, LeaveKeeps
<1>2. CASE /\ coll' = next /\ Request(again)
           /\ job' = [job EXCEPT !.round = @ + 1] /\ ran' = ran
  <2> HIDE DEF received
  <2>1. ASSUME NEW f \in Folders
        PROVE  /\ coll'[f] \in Collections /\ Listed(f)' /\ (f \in again => ~coll'[f].complete)
    <3>1. coll'[f] = IF f \in again THEN Prepared(received[f]) ELSE received[f]
      BY <1>2
    <3>2. /\ coll'[f].key = received[f].key /\ coll'[f].mail = received[f].mail /\ coll'[f] \in Collections
          /\ f \in again => ~coll'[f].complete
          /\ coll'[f].complete => received[f].complete
      BY <1>d, <3>1, PreparedFacts
    <3> QED BY <1>b, <1>d, <3>2 DEF Listed
  <2>2. coll' \in [Folders -> Collections]
    BY <1>2, <2>1
  <2>3. job' \in Lists
    <3>1. job \in Lists
      BY <1>a, JobKinds DEF IInv
    <3> QED BY <1>2, <3>1 DEF Lists
  <2> QED BY <1>2, <1>a, <1>c, <2>1, <2>2, <2>3, BatchKeeps
<1> QED BY <1>a, <1>1, <1>2

\* A change starts from a copy under a key that is not the one before the last.
LEMMA StartChangeKeeps ==
    ASSUME IInv, NEW f \in Folders, NEW m \in Mails, NEW v \in Content \ {0}, StartChange(f, m, v)
    PROVE  IInv'
<1> DEFINE work == [does |-> "change", folder |-> f, mail |-> m, value |-> v, kept |-> coll[f]]
<1>1. /\ coll[f].complete /\ coll[f].key # 0 /\ coll[f].mail[m] # 0
      /\ job = NoJob /\ job' = work /\ ran' = ran
      /\ coll' = [coll EXCEPT ![f] = NewCollection] /\ Request({f})
      /\ box' = box /\ srv' = srv /\ given' = given /\ news' = news
  BY DEF StartChange, Ready, Enter, RemoveCollection, exchange
<1>2. coll[f] \in Collections /\ Listed(f) /\ ~ran
  BY <1>1 DEF IInv, Types, Views, Works
<1>3. /\ work \in PropChanges /\ work.does = "change" /\ work.folder = f /\ work.mail = m
      /\ work.kept = coll[f]
  BY <1>2 DEF PropChanges
<1> HIDE DEF work
<1>4. /\ wire' \in [Folders -> Plain] /\ wire'[f] = Sent
      /\ \A g \in Folders \ {f} : wire'[g] = Answer("none")
  BY <1>1, RequestFacts
<1>5. /\ coll' \in [Folders -> Collections] /\ coll'[f] = NewCollection
      /\ \A g \in Folders \ {f} : coll'[g] = coll[g]
  BY <1>1, NewIsListed DEF IInv, Types
<1>6. Types' /\ Ordered'
  BY <1>1, <1>3, <1>4, <1>5 DEF IInv, Types, Ordered, InOrder
<1>7. Views'
  <2>1. ASSUME NEW g \in Folders
        PROVE  Listed(g)'
    <3>1. CASE g = f
      BY <1>1, <1>5, <3>1, NewIsListed DEF Listed, IInv
    <3>2. CASE g # f
      BY <1>1, <1>5, <3>2 DEF IInv, Views, Listed
    <3> QED BY <3>1, <3>2
  <2> QED BY <2>1 DEF Views
<1>8. Changing(f)'
  <2>1. wire'[f].is = "sent" /\ wire'[f] \in Plain
    BY <1>4, Messages
  <2>2. /\ job'.kept.key # 0 /\ job'.kept.key # srv'[f].oldKey /\ job'.kept.mail[job'.mail] # 0
        /\ Holds(srv'[f], box'[f], job'.kept.key, job'.kept.mail)
    BY <1>1, <1>2, <1>3 DEF Listed
  <2> QED BY <1>1, <1>2, <1>5, <2>1, <2>2 DEF Changing
<1>9. job' # NoJob /\ job'.does = "change" /\ job'.folder = f
  BY <1>1, <1>3 DEF NoJob
<1>10. Works'
  BY <1>4, <1>8, <1>9 DEF Works
<1> QED BY <1>6, <1>7, <1>10 DEF IInv

\* The answer to a change puts back a copy, or nothing.
LEMMA FinishChangeKeeps ==
    ASSUME IInv, FinishChange
    PROVE  IInv'
<1> DEFINE f == job.folder
           answer == wire[f]
           mail == Restored(answer.is)
           c == [key |-> answer.key, complete |-> job.kept.complete, mail |-> mail]
<1>a. /\ job.does = "change" /\ UNCHANGED <<box, exchange, news>> /\ Leave
      /\ box' = box /\ srv' = srv
  BY DEF FinishChange, exchange
<1>b. /\ job \in PropChanges /\ f \in Folders /\ job.mail \in Mails /\ job.value \in Content
      /\ job.kept.complete \in BOOLEAN /\ job.kept.mail \in Mailbox /\ Changing(f)
  BY <1>a, JobKinds DEF IInv, Works, PropChanges, Collections
<1>1. CASE answer.is \in {"done", "missing", "rejected"} /\ coll' = [coll EXCEPT ![f] = c]
  <2>1. answer.key \in Keys
    BY <1>1, <1>b DEF Changing, Plain, Verdicts
  <2>2. mail \in Mailbox
    <3>1. CASE answer.is = "done"
      <4>1. mail = [job.kept.mail EXCEPT ![job.mail] = job.value]
        BY <3>1 DEF Restored
      <4> QED BY <1>b, <4>1 DEF Mailbox
    <3>2. CASE answer.is = "missing"
      <4>1. mail = [job.kept.mail EXCEPT ![job.mail] = 0]
        BY <3>2 DEF Restored
      <4> QED BY <1>b, <4>1, Constants DEF Mailbox
    <3>3. CASE answer.is = "rejected"
      <4>1. mail = job.kept.mail
        BY <3>3 DEF Restored
      <4> QED BY <1>b, <4>1
    <3> QED BY <1>1, <3>1, <3>2, <3>3
  <2>3. answer.key # 0 /\ answer.key # srv[f].oldKey /\ Holds(srv[f], box[f], answer.key, mail)
    BY <1>1, <1>b DEF Changing
  <2> HIDE DEF mail
  <2>4. c \in Collections /\ c.key = answer.key /\ c.mail = mail
    BY <1>b, <2>1, <2>2 DEF Collections
  <2> HIDE DEF c
  <2>5. /\ coll' \in [Folders -> Collections] /\ coll'[f] = c
        /\ \A g \in Folders \ {f} : coll'[g] = coll[g]
    BY <1>1, <1>b, <2>4 DEF IInv, Types
  <2>6. \A g \in Folders : Listed(g)'
    <3>1. ASSUME NEW g \in Folders
          PROVE  Listed(g)'
      <4>1. CASE g = f
        BY <1>a, <2>3, <2>4, <2>5, <4>1 DEF Listed
      <4>2. CASE g # f
        BY <1>a, <2>5, <4>2 DEF IInv, Views, Listed
      <4> QED BY <4>1, <4>2
    <3> QED BY <3>1
  <2> QED BY <1>a, <2>5, <2>6, LeaveKeeps
<1>2. CASE coll' = coll
  <2>1. \A g \in Folders : Listed(g)'
    BY <1>2, <1>a DEF IInv, Views, Listed
  <2> QED BY <1>2, <1>a, <2>1, LeaveKeeps DEF IInv, Types
<1>3. /\ answer.is = "done" => Restored(answer.is) = [job.kept.mail EXCEPT ![job.mail] = job.value]
      /\ answer.is = "missing" => Restored(answer.is) = [job.kept.mail EXCEPT ![job.mail] = 0]
      /\ answer.is = "rejected" => Restored(answer.is) = job.kept.mail
  BY DEF Restored
<1> QED BY <1>1, <1>2, <1>3 DEF FinishChange

\* A move starts without touching a copy.
LEMMA StartMoveKeeps ==
    ASSUME IInv, NEW f \in Folders, NEW m \in Mails, NEW g \in Folders, StartMove(f, m, g)
    PROVE  IInv'
<1> DEFINE work == [does |-> "move", folder |-> f, mail |-> m, value |-> g]
<1>1. /\ f # g /\ job = NoJob /\ job' = work /\ ran' = ran /\ coll' = coll /\ Request({f})
      /\ box' = box /\ srv' = srv /\ given' = given /\ news' = news
  BY DEF StartMove, Enter, exchange
<1>2. ~ran
  BY <1>1 DEF IInv, Works
<1>3. work \in Moves /\ work.does = "move" /\ work.folder = f /\ work.value = g
  BY DEF Moves
<1> HIDE DEF work
<1>4. /\ wire' \in [Folders -> Plain] /\ wire'[f] = Sent
      /\ \A h \in Folders \ {f} : wire'[h] = Answer("none")
  BY <1>1, RequestFacts
<1>5. Types' /\ Ordered' /\ Views'
  BY <1>1, <1>3, <1>4 DEF IInv, Types, Ordered, InOrder, Views, Listed
<1>6. Moving(f)'
  BY <1>1, <1>2, <1>3, <1>4, Messages DEF Moving
<1>7. job' # NoJob /\ job'.does = "move" /\ job'.folder = f
  BY <1>1, <1>3 DEF NoJob
<1>8. Works'
  BY <1>4, <1>6, <1>7 DEF Works
<1> QED BY <1>5, <1>8 DEF IInv

\* The moved mail left its folder, so a copy without it is as good; its new id
\* is in no copy yet.
LEMMA FinishMoveKeeps ==
    ASSUME IInv, FinishMove
    PROVE  IInv'
<1> DEFINE f == job.folder
           g == job.value
           m == job.mail
           new == wire[f].new
<1>a. /\ job.does = "move" /\ UNCHANGED <<box, exchange, news>> /\ Leave
      /\ box' = box /\ srv' = srv
  BY DEF FinishMove, exchange
<1>b. /\ f \in Folders /\ g \in Folders /\ m \in Mails /\ g # f /\ Moving(f)
  BY <1>a, JobKinds DEF IInv, Works, Moving, Moves
<1>1. CASE /\ wire[f].is = "done"
           /\ coll' = [coll EXCEPT ![f].mail[m] = 0, ![g].mail[new] = 0]
  <2> DEFINE mf == [coll[f].mail EXCEPT ![m] = 0]
             mg == [coll[g].mail EXCEPT ![new] = 0]
             cf == [coll[f] EXCEPT !.mail = mf]
             cg == [coll[g] EXCEPT !.mail = mg]
  <2>1. new \in Mails /\ box[f][m] = 0 /\ coll[g].mail[new] = 0
    BY <1>1, <1>b, Messages DEF Moving, Plain, Moved
  <2>2. coll[f] \in Collections /\ coll[g] \in Collections /\ coll \in [Folders -> Collections]
    BY <1>b DEF IInv, Types
  <2>3. mf \in Mailbox /\ mg \in Mailbox /\ mg = coll[g].mail /\ mf[m] = 0
        /\ \A x \in Mails \ {m} : mf[x] = coll[f].mail[x]
    BY <1>b, <2>1, <2>2, Constants DEF Collections, Mailbox
  <2>4. coll' = [coll EXCEPT ![f] = cf, ![g] = cg]
    BY <1>1, <1>b, <2>2 DEF Collections
  <2> HIDE DEF mf, mg
  <2>5. /\ cf \in Collections /\ cf.key = coll[f].key /\ cf.complete = coll[f].complete /\ cf.mail = mf
        /\ cg \in Collections /\ cg = coll[g]
    BY <2>2, <2>3 DEF Collections
  <2> HIDE DEF cf, cg
  <2>6. /\ coll' \in [Folders -> Collections] /\ coll'[f] = cf
        /\ \A h \in Folders \ {f} : coll'[h] = coll[h]
    BY <1>b, <2>2, <2>4, <2>5
  <2>7. /\ Holds(srv[f], box[f], cf.key, cf.mail)
        /\ cf.key = 0 => cf.mail = Empty
        /\ cf.complete => cf.key # 0 /\ cf.key # srv[f].oldKey
    <3>1. Listed(f)
      BY <1>b DEF IInv, Views
    <3>2. Holds(srv[f], box[f], coll[f].key, mf)
      BY <2>1, <2>3, <3>1 DEF Listed, Holds, Follows
    <3>3. coll[f].key = 0 => mf = Empty
      BY <3>1 DEF Listed, mf, Empty
    <3> QED BY <2>5, <3>1, <3>2, <3>3 DEF Listed
  <2>8. \A h \in Folders : Listed(h)'
    <3>1. ASSUME NEW h \in Folders
          PROVE  Listed(h)'
      <4>1. CASE h = f
        BY <1>a, <2>6, <2>7, <4>1 DEF Listed
      <4>2. CASE h # f
        BY <1>a, <2>6, <4>2 DEF IInv, Views, Listed
      <4> QED BY <4>1, <4>2
    <3> QED BY <3>1
  <2> QED BY <1>a, <2>6, <2>8, LeaveKeeps
<1>2. CASE coll' = coll
  <2>1. \A h \in Folders : Listed(h)'
    BY <1>2, <1>a DEF IInv, Views, Listed
  <2> QED BY <1>2, <1>a, <2>1, LeaveKeeps DEF IInv, Types
<1> QED BY <1>1, <1>2 DEF FinishMove

\* A call that is given up leaves the copies as they are.
LEMMA AbandonKeeps ==
    ASSUME IInv, Abandon
    PROVE  IInv'
<1>1. Leave /\ UNCHANGED <<box, exchange, news>> /\ coll' = coll /\ box' = box /\ srv' = srv
  BY DEF Abandon, exchange
<1>2. \A f \in Folders : Listed(f)'
  BY <1>1 DEF IInv, Views, Listed
<1> QED BY <1>1, <1>2, LeaveKeeps DEF IInv, Types

\* A session that is told to wipe has copies of nothing.
LEMMA ForgetKeeps ==
    ASSUME IInv, Forget
    PROVE  IInv'
<1>1. /\ Leave /\ UNCHANGED <<box, exchange, news>> /\ coll' = [f \in Folders |-> NewCollection]
      /\ box' = box /\ srv' = srv
  BY DEF Forget, exchange
<1>2. \A f \in Folders : Listed(f)' /\ NewCollection \in Collections
  BY <1>1, NewIsListed DEF IInv, Listed
<1>3. coll' \in [Folders -> Collections]
  BY <1>1, <1>2
<1> QED BY <1>1, <1>2, <1>3, LeaveKeeps

----
(* The invariant and what follows from it *)

\* A device that has listed nothing.
LEMMA InitIInv == Init => IInv
<1> SUFFICES ASSUME Init PROVE IInv
  OBVIOUS
<1> DEFINE s == [last |-> 0, key |-> 0, seen |-> Empty, oldKey |-> 0, oldSeen |-> Empty]
<1>1. s \in Memory /\ s.last = 0 /\ s.key = 0 /\ s.oldKey = 0
  BY Constants DEF Memory
<1>2. srv = [f \in Folders |-> s]
  BY DEF Init
<1> HIDE DEF s
<1>3. srv \in [Folders -> Memory] /\ \A f \in Folders : srv[f] = s
  BY <1>1, <1>2
<1>4. box \in [Folders -> Mailbox]
  BY DEF Init, Mailbox, Content
<1>5. NewCollection \in Collections
  BY Constants DEF NewCollection, Collections
<1>6. coll \in [Folders -> Collections] /\ \A f \in Folders : coll[f] = NewCollection
  BY <1>5 DEF Init
<1>7. given = 0 /\ given \in Keys /\ news \in 0..MaxNews /\ job = NoJob /\ wire = Quiet /\ ran = FALSE
  BY Constants DEF Init
<1>8. Quiet \in [Folders -> Plain]
  BY DEF Quiet, Plain
<1>9. Types
  BY <1>3, <1>4, <1>6, <1>7, <1>8 DEF Types
<1>10. Ordered
  BY <1>1, <1>3, <1>7 DEF Ordered, InOrder
<1>11. Views
  BY <1>6, <1>9, NewIsListed DEF Views, Listed
<1>12. Works
  BY <1>7 DEF Works, NoJob
<1> QED BY <1>9, <1>10, <1>11, <1>12 DEF IInv

\* Every step keeps the invariant.
LEMMA StepIInv == IInv /\ [Next]_vars => IInv'
<1> SUFFICES ASSUME IInv, [Next]_vars PROVE IInv'
  OBVIOUS
<1>1. CASE UNCHANGED vars
  <2>1. /\ box' = box /\ srv' = srv /\ given' = given /\ news' = news /\ coll' = coll
        /\ job' = job /\ wire' = wire /\ ran' = ran
    BY <1>1 DEF vars, exchange
  <2>2. \A f \in Folders : /\ Listing(f)' = Listing(f) /\ Changing(f)' = Changing(f)
                           /\ Moving(f)' = Moving(f) /\ Listed(f)' = Listed(f)
    BY <2>1 DEF Listing, Changing, Moving, Listed, Restored
  <2>3. job.does \in {"change", "move"} => job.folder \in Folders
    BY JobKinds DEF IInv, PropChanges, Moves
  <2>4. Types' /\ Ordered' /\ Views'
    BY <2>1, <2>2 DEF IInv, Types, Ordered, InOrder, Views
  <2>5. Works'
    BY <2>1, <2>2, <2>3 DEF IInv, Works, Quiet, Answer
  <2> QED BY <2>4, <2>5 DEF IInv
<1>2. ASSUME NEW f \in Folders, Exchange(f)
      PROVE  IInv'
  BY <1>2, AnswerSyncKeeps, AnswerFailsKeeps, AnswerChangeKeeps, AnswerMoveKeeps, OtherSessionKeeps
  DEF Exchange
<1>3. CASE Step
  BY <1>3, StartListKeeps, StartChangeKeeps, StartMoveKeeps, ProcessKeeps, FinishChangeKeeps,
     FinishMoveKeeps, AbandonKeeps, ForgetKeeps DEF Step
<1>4. ASSUME NEW f \in Folders, NEW m \in Mails, NEW v \in Content, OtherClient(f, m, v)
      PROVE  IInv'
  BY <1>4, OtherClientKeeps
<1> QED BY <1>1, <1>2, <1>3, <1>4 DEF Next

\* Copies go with their keys, wherever they are: in a session's collection
\* (session.rs), in a page under way (sync.rs) or kept by a change under way
\* (mail_properties.rs).
THEOREM Invariance == Spec => []IInv
<1>1. Init => IInv
  BY InitIInv
<1>2. IInv /\ [Next]_vars => IInv'
  BY StepIInv
<1> QED BY <1>1, <1>2, PTL DEF Spec

\* What a session holds of a folder is what Exchange believes it told the device
\* under that key, after lost answers, cancelled calls, an invalid key, a policy
\* refresh and moves: apply_page and prepare_requests of sync.rs, the removal and
\* restoring of a collection in mail_properties.rs.
THEOREM CopiesFollowKeys == Spec => []CacheMatchesKey
<1>1. IInv => CacheMatchesKey
  <2> SUFFICES ASSUME IInv PROVE CacheMatchesKey
    OBVIOUS
  <2>1. Memory = [last : 0..MaxKeys, key : 0..MaxKeys, seen : Mailbox,
                  oldKey : 0..MaxKeys, oldSeen : Mailbox] /\ Collections = Collection
    BY DEF Memory, Collections, Collection, Keys
  <2>2. TypeOK
    BY <2>1 DEF IInv, Types, Works, TypeOK
  <2>3. ASSUME NEW f \in Folders
        PROVE  /\ coll[f].key = 0 => coll[f].mail = Empty
               /\ coll[f].key # 0 /\ coll[f].key = srv[f].key => Agrees(f, coll[f].mail, srv[f].seen)
               /\ coll[f].key # 0 /\ coll[f].key = srv[f].oldKey => Agrees(f, coll[f].mail, srv[f].oldSeen)
    <3>1. Listed(f)
      BY DEF IInv, Views
    <3>2. ASSUME NEW view, Follows(box[f], coll[f].mail, view)
          PROVE  Agrees(f, coll[f].mail, view)
      BY <3>2 DEF Follows, Agrees
    <3> QED BY <3>1, <3>2 DEF Listed, Holds
  <2> QED BY <2>2, <2>3 DEF CacheMatchesKey
<1> QED BY <1>1, Invariance, PTL

\* property_collection (mail_properties.rs) lets a change start only from a
\* collection that is ready; its key is never the one Exchange has moved on from.
THEOREM ReadyIsCurrent == Spec => []ReadyMeansCurrent
<1>1. IInv => ReadyMeansCurrent
  BY DEF IInv, Views, Listed, ReadyMeansCurrent
<1> QED BY <1>1, Invariance, PTL

\* What change_mail_property and move_message (mail_properties.rs) report is
\* what Exchange did: it cannot take a change for a repetition of one
\* that it answered before.
THEOREM VerdictsAreTrue == Spec => []OutcomesAreTrue
<1>1. IInv => OutcomesAreTrue
  <2> SUFFICES ASSUME IInv, job.does \in {"change", "move"}
               PROVE  /\ wire[job.folder].is = "done" => ran
                      /\ wire[job.folder].is \in {"missing", "rejected", "stale"} => ~ran
    BY DEF OutcomesAreTrue
  <2>1. CASE job.does = "change"
    BY <2>1 DEF IInv, Works, Changing
  <2>2. CASE job.does = "move"
    <3>1. wire[job.folder].is \notin {"missing", "rejected"}
      BY <2>2 DEF IInv, Works, Moving, Plain, Moved
    <3> QED BY <2>2, <3>1 DEF IInv, Works, Moving
  <2> QED BY <2>1, <2>2
<1> QED BY <1>1, Invariance, PTL
====
