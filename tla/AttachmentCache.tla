---- MODULE AttachmentCache ----
(***************************************************************************)
(* Downloaded attachments (crates/app/src/attachment_cache.rs and usage.rs,*)
(* cli/cache.rs; download_result in runtime/reads.rs).  Every operation    *)
(* holds a lock file that all processes share, so that it is one step; it  *)
(* may fail in the middle.  A file is told of only when it is complete,    *)
(* but may stay behind incomplete.                                         *)
(***************************************************************************)
EXTENDS Integers

CONSTANT
    RetentionHours      \* how long a download is kept, 24 in the code

ASSUME DownloadsAreKeptAWhile == RetentionHours \in Nat \ {0}

\* expired: the age of a file is that of its last change.
Expired(file, now) == file.at + RetentionHours <= now

NoFiles == [is |-> "cached", files |-> {}, told |-> {}, failed |-> FALSE]
Succeeds(cache, files) == [cache EXCEPT !.files = files, !.failed = FALSE]

\* Whatever is removed may be removed in part, and then the operation fails.
Deleting(cache, doomed) ==
    {Succeeds(cache, cache.files \ doomed)}
    \union {[cache EXCEPT !.files = @ \ part, !.failed = TRUE] : part \in SUBSET doomed}

\* prune: at start-up and before every download.
Prune(cache, now) == Deleting(cache, {f \in cache.files : Expired(f, now)})

\* private_file: a file that could not be written is removed, if that is possible.
PrivateFile(cache, file) ==
    {[Succeeds(cache, cache.files \union {file}) EXCEPT !.told = @ \union {file}],
     [cache EXCEPT !.failed = TRUE],
     [cache EXCEPT !.failed = TRUE, !.files = @ \union {[file EXCEPT !.whole = FALSE]}]}

\* store
Store(cache, account, token, now) ==
    UNION {IF pruned.failed THEN {pruned}
           ELSE PrivateFile(pruned, [account |-> account, token |-> token, at |-> now, whole |-> TRUE]) :
               pruned \in Prune(cache, now)}

\* purge_account and clear: the downloads of one account, or all.
Clear(cache, accounts) == Deleting(cache, {f \in cache.files : f.account \in accounts})
====
