---- MODULE LocalFiles ----
(***************************************************************************)
(* Files of this computer: those of AI clients (ClientConfiguration) and   *)
(* downloaded attachments (AttachmentCache), as questions that are         *)
(* answered step by step.                                                  *)
(***************************************************************************)
EXTENDS Questions, ClientConfiguration, AttachmentCache

CONSTANTS
    Owners,             \* the accounts that attachments are downloaded from
    Tokens,             \* the names of downloads
    Horizon             \* bound: the hours that are looked at

----
(* Clients: one command, that may be killed, while the client changes a file. *)

\* The servers of Claude Code are not in its settings.
Settled(kind, files) ==
    \A f \in DOMAIN files \ {ServerFile(kind)} : files[f].is = "document" => files[f].server = "none"

ClientQuestions ==
    UNION {{[is |-> "client", kind |-> kind, configure |-> configure, files |-> files] :
               configure \in BOOLEAN, files \in {g \in [FilesOf(kind) -> Contents] : Settled(kind, g)}} :
              kind \in {"codex", "claude", "opencode"}}

AskCommand ==
    /\ question.is = "client" /\ answer = Nothing
    /\ answer' = Started(question.kind, question.configure, question.files)

AskStep ==
    /\ question.is = "client" /\ answer.is \in {"running", "failing"}
    /\ \/ Going(answer) /\ answer' \in After(answer)
       \/ answer.is = "running" /\ answer.todo = <<>> /\ answer' = [answer EXCEPT !.is = "done"]
       \/ answer.is = "failing" /\ answer' \in Restoring(answer)
       \/ answer' = [answer EXCEPT !.is = "killed"]

\* The client stores something of the user.
AskClient ==
    /\ question.is = "client" /\ answer.is \in {"running", "failing"}
    /\ \E f \in DOMAIN answer.files :
        /\ answer.files[f].is = "document"
        /\ \E own \in UserData : answer' = [answer EXCEPT !.quiet = FALSE, !.files[f].own = own]

\* What was in a file before is in the file or in its backup, even if restoring
\* it failed or the command was killed.  If the command fails and nobody else
\* writes, every file that could be restored is as it was, but for the server
\* of Claude Code, which stays removed when its settings cannot be changed.  If
\* it succeeds, the server is there, or is not there, and no generated approval
\* is left, nor is anything of the user lost.
ClientFilesAreKept ==
    question.is = "client" /\ answer # Nothing =>
        LET before == question.files
            files == answer.files
            own(content) == IF content.is = "document" THEN content.own ELSE 0
            server == files[ServerFile(answer.kind)]
            rules == files[RulesFile(answer.kind)]
        IN  /\ \A f \in DOMAIN files : files[f] # before[f] /\ answer.quiet => answer.backups[f] = before[f]
            /\ answer.is = "failed" /\ answer.quiet =>
                   \A f \in DOMAIN files \ answer.unrestored :
                       \/ files[f] = before[f]
                       \/ ~question.configure /\ answer.kind = "claude" /\ files[f] = WithoutServer(before[f])
            /\ answer.is = "done" =>
                   /\ question.configure => server.is = "document" /\ server.server = "ours"
                   /\ rules.is = "document" =>
                          ~rules.generated \/ (~question.configure /\ answer.kind = "codex")
                   /\ answer.quiet => \A f \in DOMAIN files : own(files[f]) = own(before[f])

----
(* Attachments: downloads, start-ups and commands, one after the other. *)

CacheQuestions == {[is |-> "cache", last |-> "nothing", cleared |-> {}, now |-> 0, tokens |-> Tokens]}

AskDownload ==
    /\ question.is = "cache"
    /\ \E account \in Owners, token \in question.tokens :
        /\ answer' \in Store(IF answer = Nothing THEN NoFiles ELSE answer, account, token, question.now)
        /\ question' = [question EXCEPT !.last = "download", !.cleared = {}, !.tokens = @ \ {token}]

AskStartUp ==
    /\ question.is = "cache" /\ answer # Nothing
    /\ answer' \in Prune(answer, question.now)
    /\ question' = [question EXCEPT !.last = "start-up", !.cleared = {}]

\* One account is purged, or all downloads are cleared.
AskClear ==
    /\ question.is = "cache" /\ answer # Nothing
    /\ \E accounts \in {{owner} : owner \in Owners} \union {Owners} :
        /\ \E cleared \in Clear(answer, accounts) :
               answer' = [cleared EXCEPT !.told = {f \in @ : f.account \notin accounts}]
        /\ question' = [question EXCEPT !.last = "clear", !.cleared = accounts]

AskLater ==
    /\ question.is = "cache" /\ answer # Nothing /\ question.now < Horizon
    /\ question' = [question EXCEPT !.now = @ + 1, !.last = "nothing", !.cleared = {}]
    /\ UNCHANGED answer

\* A download that a caller was told of stays, and is whole, for its time; no
\* download stays longer than that once another one or a start-up has succeeded,
\* and nothing of an account stays once it is purged.
DownloadsAreKept ==
    question.is = "cache" /\ answer # Nothing =>
        /\ \A f \in answer.told : Expired(f, question.now) \/ (f \in answer.files /\ f.whole)
        /\ ~answer.failed =>
            \A f \in answer.files :
                /\ question.last \in {"download", "start-up"} => ~Expired(f, question.now)
                /\ f.account \notin question.cleared

\* Local files are changed only as told.
LocalFilesAreKept == ClientFilesAreKept /\ DownloadsAreKept

----
AskLocal ==
    \/ (AskCommand \/ AskStep \/ AskClient) /\ UNCHANGED question
    \/ AskDownload \/ AskStartUp \/ AskClear \/ AskLater
LocalQuestions == ClientQuestions \union CacheQuestions

LocalInit == question \in LocalQuestions /\ answer = Nothing
LocalSpec == LocalInit /\ [][AskLocal]_<<question, answer>>
====
