# Artalk: a TLA+ verification project

Artalk is a self-hosted comment server: a Go program (`cmd/`, `server/`,
`internal/`) that keeps users, pages, comments, votes and notifications in an SQL
database, a cache in front of it, and sends notifications by mail and other
channels. What can go wrong without a single wrong line goes wrong between its
parts: HTTP handlers run concurrently (one goroutine per request), most of them read
a row, work on the copy and write the whole row back, lookups fill a cache that other
handlers clear, background jobs outlive the request that started them, an
administrator may rebuild the whole application while all of this is going on, and an
upgrade may be interrupted between any two statements.

The project models those parts in TLA+, checks them with TLC on small instances and
proves what matters most about nearly all of them with TLAPS, for all values of their
parameters.
`PROJECT.json` maps every definition to the lines it models, and lists the runs, the
mutants, the hazards, the findings and the theorems.

## 1. Inventory

| component | state | operations | interacts with |
|---|---|---|---|
| E-mail verification codes (`server/handler/auth_email_send.go`) | table `user_email_verifies`, 64 mutexes chosen by a hash of the address | send a code, check a code | mail queue, register/login/profile handlers |
| Accounts and logins (`auth_*.go`, `user_*.go`, `server/common/auth.go`) | table `users`, three cache keys, tokens, identities | register, reset password, log in, SSO, admin CRUD, profile | comments, votes, verification codes |
| Merge of accounts (`auth_merge_apply.go`) | mutex per user | move everything of one address to one account | comments, votes, notifies, identities |
| Social login (`internal/auth`, `auth_social_login.go`) | session of the browser, registry of providers, identities | begin, callback, reload of the settings | accounts |
| Uploads (`upload.go`) | files, a command that sends them elsewhere | upload an image, upload a file to import | configuration |
| Votes (`vote.go`, `vote_sync.go`) | table `votes`, counters in comment and page rows, cache | vote, sync all counters | comment edits and deletions |
| Anti-spam (`internal/anti_spam`, `core/service_anti_spam.go`) | none of its own | ask services in turn, match keywords, block or mask | comment rows, notification job |
| Sites (`site_*.go`, `server/common/site.go`) | table `sites`, two cache keys, site names in pages and comments | create, rename, delete, find or create | pages, comments |
| Migration (`internal/dao/migrate.go`) | the schema, `root_id`, the proofs of guests | migrate, merge pages | every table |
| Configuration and command line (`internal/config`, `cmd`) | files, environment, flags | find, read, override, patch, generate | everything |
| Comments and reply lists (`internal/dao/query_*.go`, `cache.go`) | table `comments`, cached comments, cached lists of reply ids | create, update, delete with cascade, find, warm up, flush | votes, pages, notifications |
| Comment lists (`comment_list.go`, `comments_get`) | none | who sees which comments, page by page, with counts | comments, guests' proofs, notifications |
| Import and export (`internal/artransfer`, `transfer_*.go`) | the file, a mutex | export, import over HTTP or from the command line | all tables |
| Notification pusher and notifications (`internal/notify_pusher`, `notify_*.go`) | table `notifies` | decide who is mailed, renotify after approval, mark read or emailed | comments, mail queue |
| Pages (`page_*.go`, `dao/service.go`) | table `pages`, two cache keys, 64 mutexes chosen by a hash | view, first comment, edit, title, delete | singleflight, comments |
| Title fetcher (`internal/dao/page_fetch.go`, `page_fetch_*.go`) | the limiter's places and clock, the status of the batch | automatic, single and batch fetches | other servers, pages, trusted origins |
| Rate limiter (`internal/limiter/rate.go`) | window, total, counts per key | `Allow` | views that create a page, guests that mark notifications read |
| Captcha limiter, images and third-party checkers (`internal/limiter`, `internal/captcha`, `simple_cache`) | count, time and verified flag per address; image text per address | guard an action, answer, new image, clean-up | every guarded handler |
| Application lifecycle (`internal/core`, `cmd/base.go`, `setting_apply.go`) | configuration file, `app.conf`, database handle, dao, cache, services | apply settings = write file, reload, reset, bootstrap; terminate | everything that holds `app.Dao()` |
| Mail queue (`internal/email/queue.go`) | channel, closed flag, worker | push, receive, send, close | pusher, verification codes, lifecycle |

What is hard in this code, and therefore what the properties are about:

* **Concurrency without transactions.** Handlers follow the pattern "find (through
  the cache), change the copy, `Save` the whole row". Only votes, verification codes,
  imports, `page_pv` and the title fetch use transactions or conditional `UPDATE`s.
* **A cache that is filled by readers and cleared by writers**, with entries that
  expire at any time.
* **Failures and crashes between statements**: cascades, merges, settings and
  migrations consist of several statements, most of them outside a transaction.
* **Background work**: the job of a new comment, the single mail worker, title
  fetches, garbage collection of the captcha store.
* **Restart in place**: `ResetBootstrapState` and `Bootstrap` replace the database
  handle, the cache and all services while requests run.
* **Answers assembled from several queries**, page by page, while others write.
* **Time**: cooldowns, expiries, windows, token dates in whole seconds.

For each component the properties that make it correct are those of its run in
section 3. `PROJECT.json` lists forty hazards with the properties that would catch
each going wrong.

## 2. Modules and how they correspond to the code

Every module keeps the control of the code (one action per statement that another
goroutine can observe, guards from the conditions and early returns) and abstracts
data to what the properties tell apart. A lookup is atomic with its fill of the cache
only where the module says so. Operators named `X_Something` in front of a definition
`X` are plausible bugs of that code; they are used by nothing but the mutants in
`PROJECT.json`, each of which violates the property it is listed with.

| module | models | state (variable = code) |
|---|---|---|
| `EmailVerify` | `AuthEmailSend`, `CheckEmailVerifyCode` | `rows` = the table; `held` = locked stripes; `send`, `check` = the local variables of running requests; `outbox` = mails handed to the queue; `issued` = history of every code ever written |
| `Accounts` | every request that reads or writes `users`, tokens, `AuthMergeApply` | `users`, `owner` = tables; `byId`, `byKey`, `byEmail` = cache; `tokens`; `mutex`; `work`; histories |
| `Uploads` | `Upload`, `TransferUpload` | `disk`, `remote`, `temp` = files; `upload` = running requests; `milli` = the clock names are made of; histories `shared`, `kept` (images whose removal failed) |
| `Votes` | `updateVote`, `VoteSync`, comment edit and deletion as they touch votes | `row`, `votes` = tables; `lock` = row lock of the transaction; `cache`; `proc` = running requests; histories `calm`, `clean` |
| `AntiSpam` | `AntiSpam.CheckAndBlock`, the checkers, the keyword checker, the callbacks that block and mask | `comment` = its row; `step`, `verdicts` = the check under way |
| `Sites` | `SiteCreate`, `SiteUpdate`, `SiteDelete`, `FindCreateSite` | `sites`, `pages` = tables; caches by name, id and page key; `made` = history of the site a page was created for |
| `Migration` | `MigrateModels`, `MigrateRootID`, the rename of the proofs' column, `MergePages` | `columns`, `indexes`, `comments`, `root`, `proved`, `pageRows` = the database; `env`, `boot`, `todo` = the launch |
| `Startup` | `Launch`, the search for a file, `env_provider`, the patches of `config/base.go`, generation | `files`, `cwd`, `workDir`, `cfgFile`, `loaded`; `config` = the patched configuration; `signers` = history of signing keys |
| `CommentTree` | `CreateComment`, `UpdateComment`, `DelComment`, `DelCommentChildren`, `FindComment`, warm-up, flush | `table`, `parent` = comments; `entry` = cached comments; `kids` = cached reply lists; `work` = running requests; history `unsaved` (comments whose last save failed) |
| `Listing` | `GET /comments`, `/comments/:id`, `/notifies`, `/stats/*`, and what creations, edits and deletions do to the rows they show | `comments`, `notices` = tables; `copies` = every copy of a comment a cache may hand out; `doomed` = deletions under way; `lastId` = auto-increment; `reader` = a client that pages through a list; histories `before`, `since`, `moved` |
| `Transfer` | `importer.go`, `exporter.go`, the handlers and commands | `db` = tables; `exported` = files; `importing` = the mutex; `job` |
| `NotifyFlow` | the job after `CommentCreate`, `NotifyPusher.Push`, `renotifyWhenPendingModified`, `NotifyRead`, the mail worker | `row` = table notifies; `queue`, `worker`; `agent` = job and moderators; `reader`; histories; `conf` = settings, author, parent |
| `Pages` | `PagePV`, `FindCreatePage`, `PageUpdate`, both title fetches, `DelPage` | `table`; `byKey`, `byId` = cache; `query` = the singleflight group of lookups, that of the cache or that without it; `create` = that of creations; `lock` = the mutex of `PagePV`; `work`; histories, among them `late` (a creation joined a lookup that began before the row was made) |
| `PageFetch` | `TryFetchPageFromURL`, `pageFetchLimiter`, redirects, `PageFetch`, `PageFetchAll`, its status | `active`, `wait` = the limiter; `running`, `done`, `total`, `todo` = the batch; `at`, `asks`, `hops`, `origins`, `left` = a fetch |
| `FetchSlots` | the abstract specification of that limiter: few at a time, one of a URL, starts apart | implemented by `PageFetch` through `Slots == INSTANCE FetchSlots WITH running <- Held, since <- Interval - wait` |
| `RateLimiter` | `rate.go` | `counts`, `total`, `expires`; history `opened` |
| `ActionLimiter` | `limiter/base.go`, `lib.go`, guard and captcha handlers, checkers, `simple_cache` | `count`, `last`, `verified` = the limiter's entries; `image` = the captcha store; `gc`; `work`; histories |
| `Social` | `gothic_fiber`, `auth_social_login.go`, `internal/auth` | `session`, `registry`, `providers` (the list all reloads share), `redirects` = ways back from a provider; `reload` = changes of the settings under way; `call` = running callbacks; `identities`, `accounts` = tables; history `torn` (reloads overlapped) |
| `Lifecycle` | `ApplySettings`, `ResetBootstrapState`, `Bootstrap`, services, mail queue, jobs, process end | `file`; `conf`, `dao`, `cache`, `pusher`, `queue` = fields of the application; `dbs`, `caches`, `queues` = every object ever created; `lock`, `actor`, `job`, `up` |
| `*Proofs` | the theorems of section 6 | |
| `MC*` | instances for TLC | |

How they fit together: `NotifyFlow` and `Lifecycle` both contain the mail queue, the
first with its content and one queue, the second with its closing and replacement.
`EmailVerify` hands mails to that queue (`outbox`). `Accounts` takes an accepted code
from `EmailVerify` as an input and `Social` the creation of an account from
`Accounts`; `CommentTree` and `Pages` look inside the cache fills that `Accounts`
treats as one step. Comments are the point of contact of `Votes` (counters in the same
row), `CommentTree`, `NotifyFlow` and `AntiSpam` (the job of a new comment), `Listing`
(what readers get to see of them) and `Migration` (the root ids `Listing` relies on).
`PageFetch` decides which fetch runs, `Pages` what its title does to the row.

Several modules are checked in one run, *side by side*: the MC module extends them
and a variable `live` names the one whose steps a behaviour takes, while the variables
of the others keep one initial value. The reachable states are therefore the sum of
those of the modules and not their product, and a property of one module is checked in
all states of that module. This is not a composition of the modules; where components
share state, that state is in one module.

Abstractions worth knowing:

* `EmailVerify`: codes, addresses and clients are model values; time is a counter;
  the retry loop is modelled with its bound `MaxAttempts`. `UpdatedAt` is the clock at
  the write, as in the code, and not a version number.
* `Accounts`: passwords are right or wrong; notifies are moved like votes.
* `Votes`: up and down of comments; page votes run through the same function.
* `AntiSpam`: contents and keywords are sequences of letters, so that overlapping
  keywords and what masking leaves of them are real; services answer as they like.
* `Sites`: a row stands for the page of a site and its comments.
* `Migration`: statements are steps; a column is a set of the comments that have a
  value in it; NULL and 0 are one value of `root_id`, as for the code that reads it.
* `Startup`: an option is its path, values are strings or lists; thirty scalar options
  stand for those that some patch reads or writes.
* `CommentTree`: a comment's columns are one value; reply lists are sets.
* `Listing`: search hits and votes are attributes of a row; one page of a list is one
  query. An edit saves any copy that a cache may hold and changes any column; a deletion
  goes statement by statement, may fail at each, and finds any subset of the replies,
  because the cached lists it reads may miss some. `Transfer`: a page key is a host and
  a path; users stand for name and address; an export lists rows by id.
* `NotifyFlow`: one comment, its author, the author of its parent and two
  administrators, possibly at one address.
* `PageFetch`: a page stands for its URL; time is counted down to the next start.
* `ActionLimiter`: two ticks are a second, because `logTime` drops fractions; reading the
  clock and storing the time are one step, and so are drawing an image and storing it.
* `Social`: profiles are records; a code is good once; a state is the number of the flow
  it was drawn for, or one that a request brought along in `?state=`: an earlier one, or
  one the program never draws.
* `Lifecycle`: what a configuration file means is its kind (without or with cache,
  invalid, other time zone, unreachable database).

## 3. Runs

Each module has one type invariant, the first conjunct of its main invariant; the
properties that carry the weight are the others.

* **server** (`MCServer`: `EmailVerify`, `Accounts`, `Uploads`).
  *AcceptedAtMostOnce*: a code is consumed once although checks are simultaneous.
  *AttemptBudget*: no issuance costs more than `MaxAttempts` comparisons.
  *RefusedOnlyIfDead*: the bounded retry loop never refuses the holder of the right code
  while the challenge is alive. *SendsInOrder*: one challenge per address (there is no
  unique index) and mails in the order of the codes. *LockoutKept*: an exhausted
  challenge stays until it expires. *UsersSound*: cached users equal their rows between
  requests that follow one another, comments and identities have an owner.
  *RevokedStays*: a password change revokes older tokens for good. *MergeExact*: a merge
  loses nothing and takes nothing of another address. *UploadsSound*: an address that is
  answered shows the image that was uploaded, refused or failed uploads leave nothing but
  a file that could not be removed, which is then whole.
* **votes** (`MCVotes`: `Votes`, `AntiSpam`, `Sites`, `Migration`, `Startup`).
  *OneVotePerIP*; *CountsRight*: the counters equal the votes as long as only votes
  write, and after an undisturbed sync. *SpamSound*: a comment is held if and only if
  it was flagged (or a checker failed and the settings are strict), what is shown holds
  no keyword, nothing is asked after the first flag. *SitesSound*: pages stay with the
  site they were created for, the caches agree with the table, and a page found in the
  cache is one of the site that asks. *MigrationSound*: in
  an upgraded database every reply is in the thread of its parent, and every guest's
  proof in the column that is read, wherever earlier launches were interrupted.
  *StartupSound*: the file is found in the caller's directory, the environment wins
  whatever its order, the patched configuration is usable, and the signing key outlives
  restarts.
* **tree** (`MCCommentTree`: `CommentTree`, `Listing`, `Transfer`). *TreeSound*:
  requests that follow one another leave no stale entry but a copy whose save failed, and
  no direct reply of a deleted comment survives, although the cached reply list may be
  incomplete.
  *FlushRefreshes*: after a flush every existing comment is read afresh.
  *ListingSound*: nobody is shown a comment he may not read by any query, what a
  notification announces is found whatever copies the caches hold and whichever deletions
  fail or miss replies, and who pages to the end while comments are only added sees
  everything. *TransferSound*: imports over HTTP exclude each other, and an
  undisturbed export comes back as it was when imported into an empty database.
  *ImportExact*: an import commits all that its file says, threads included, or nothing.
* **notify** (`MCNotifyFlow`: `NotifyFlow`, `Pages`). *Recipients*: a push mails nobody
  twice, nobody against their will, no address of administrators twice, all
  administrators it should, and the row never claims a mail that was not sent.
  *MailsGoOut* (liveness): a held reply that was approved leads to a mail, and the queue
  drains. *PagesSound*: one row is created however many requests find the page missing,
  unless a lookup of a creation joins one that is older than the row.
  *NoneStuck*: while a request for a page is unfinished one can go on. *RowKept*: no view
  is lost or counted twice, a deleted page does not come back, automatic discovery never
  replaces a title.
* **limits** (`MCLimits`: `RateLimiter`, `ActionLimiter`, `Social`). *RateSound*: the map
  of counts is bounded and windows are apart. *LimitsExact*: wherever an interval of the
  window's length begins, at most twice the limits are admitted, and nobody is denied
  without the limit really being used up. *WithinCredit*: requests that follow one
  another never exceed the captcha limit. *ResetInTime*: nobody is refused without
  having used up the limit or after the time-out, and the count is not reset before it.
  *OnlyLatestImage*: only the text of the latest image passes, whatever is deleted
  meanwhile. *SocialSound*: one identity is never that of two profiles of different
  servers, and the user of a self-hosted server never joins the account of another,
  also while settings change, as long as their reloads do not overlap.
  *LoginOwn*: whom a callback logs in has approved it in a flow this browser began, if
  the program drew its state, whatever tabs and ways back are mixed up.
* **lifecycle** (`MCLifecycle`: `Lifecycle`, `PageFetch`). *AppSound*: once no restart
  runs all parts belong together and are open, also after overlapping restarts; restarts
  that do not overlap leave what the file says and leak nothing; panics occur only
  around a restart. *MailsHandled* (liveness): accepted mail is handled, also that of a
  queue that was replaced. *ApplyEnds* (liveness): every settings request ends.
  *FetchSound*: redirects lead only to origins trusted when the fetch began, and the
  status of the batch is true. *SlotsKept*: `PageFetch` implements `FetchSlots`.
  *FetchesEnd* (liveness): servers that never answer hold up neither batch nor limiter.

Six runs show a disagreement between the code and what is said of it; each is a finding
in `PROJECT.json`.

* **notify_blocked** violates *BlockedNotMailed*: the job pushes with the copy of the
  comment made before the anti-spam check blocked it.
* **pages_twice** violates *NoDuplicate*: with an empty answer cached late two rows of
  one page are created.
* **merge_rollback** violates *RolledBack*: the statements of a merge of accounts do not
  run on its transaction.
* **merge_pages** violates *MergeKept*: the merge of pages deletes softly, then inserts
  under the same ids, which the table refuses.
* **transfer_root** violates *RootFromRid*: a reply whose ancestors leave the file is
  imported as a reply without a root.
* **config_path** violates *RelativeHere*: an explicit relative path is resolved in the
  data directory.

## 4. Bounds, and why they are enough

Deadlock checking is off where an instance is bounded by its number of requests: when
they are used up the system may stop. What must not stop is stated as liveness
(*MailsGoOut*, *MailsHandled*, *ApplyEnds*, *FetchesEnd*) or as freedom of deadlock
(*NoneStuck*). The run **tree** checks deadlock.

* `EmailVerify`: two checks of one challenge; a resend, or two, with a check; two sends
  for one or two addresses of one stripe, by one or two clients. 2 attempts, lifetime 2,
  cooldown 1, times 0..2, 1 to 3 issuances. Races are between pairs; two attempts are
  enough for "one right, one wrong", exhaustion and a retry that runs out; the clock
  passes cooldown and expiry. `Begins` and `FirstChallenge` in `MCServer` remove states
  that differ by names only: the second of two equal requests starts only while the
  first is busy, and the first challenge is of the first address, client and code. The
  proofs are for any number of each.
* `Accounts`: three rows, two names, two addresses, three requests (four of those that
  create, merge and delete), one expiring entry, two seconds. The casts divide the
  requests into those that can influence one another. The proofs are for any number of
  each.
* `Uploads`: two at once, every setting, two milliseconds. The proof is for any number.
* `Votes`: one target (targets do not interact), votes of two clients; two votes of one
  client with a deletion or with an edit; one vote with a sync and an edit or a
  deletion, whose saves may fail. Voters are interchangeable, so the second starts while
  the first is busy.
  The proofs are for any number of each, together.
* `AntiSpam`: three letters, keywords that overlap each other and themselves, no, one
  or two services. `Sites`: two requests at once, three rows, four requests.
* `Migration`: four comments (a chain of depth three, a missing, a deleted and an own
  parent, parents with later ids, and circles), every age of database, two faults, three
  launches. `Startup`: every set of
  files and flags; every option in the file, and pairs of eleven variables, two starts.
* `CommentTree`: requests that follow one another on three comments, which make a
  cascade of depth two; two overlapping requests on one comment, where the races are
  between the cached comment, its list of replies and its row.
* `Listing`: three comments and a fourth to come, twelve kinds of list, four readers,
  one request that changes comments, of one column if it is an edit, the steps of a
  deletion between any of the queries. `Transfer`: three comments that answer each other
  or one outside the list, in both orders, and lists with comments that are skipped.
* `NotifyFlow`: pushes with every setting for comments of a user and of administrators,
  and administrators who share an address for those of a user; a held reply with one
  moderator, failing statements and a reader, or with two moderators; queue capacity 1
  so that a sender blocks behind the worker.
* `Pages`: up to four requests at a time, among them three first comments, of which one
  may join the lookup of another; `MaxId` = 2 rows: a second row is the error.
* `PageFetch`: two fetches, two URLs of two origins of which one is trusted at first, one
  redirect, one at a time: both limits bind. The proofs are for all values.
* `RateLimiter`: window 2, times 0..4, four keys, total limit 3, limit 2 per key:
  either limit can bind first, and a retained key too many would be seen.
* `ActionLimiter`: one client (clients share nothing but the clean-up), two
  simultaneous requests, two actions free; five requests in sequence, of which three are
  made once requests have overlapped (`RacedActs`), two with the other settings. The
  proofs are for any number of clients, requests and actions.
* `Social`: two browsers, two tabs of which the second is used while the first is, two
  flows; two callbacks at once, one state that requests bring along; or one callback at a
  time with one change of the settings, or with two that may overlap and one flow; five
  people, some with equal names, addresses and numbers on different servers.
* `Lifecycle`: two settings requests with a good, an invalid and a failing file, one
  request and a job with every kind of file, one job, two mails, queue capacity 1.

Symmetry is used where requests and clients are interchangeable (**tree**, **limits**);
these runs check no liveness.

## 5. Fairness

Only the runs with liveness properties assume any. A goroutine that can run does run:
weak fairness of every request, job and worker (`NotifyFlow`, `Lifecycle`), and of the
steps of a fetch and of time in `PageFetch`, whose time-out is a timer. Nothing is
assumed about clients, moderators, readers, other servers, expiries or failures: a
server may never answer. All other modules are checked for safety; that requests for a
page end is checked as freedom of deadlock, since every step of a request is finite.

## 6. What is proved

The proofs assume what the modules state as `ASSUME` and nothing else: the sets of
addresses, clients, codes and requests are arbitrary (nonempty where an idle record
needs a value), the times and limits are natural numbers. One module of proofs serves
several components that visitors, requests or the background have in common; it names
them in its head. `Accounts` also assumes of the
tables at the start what the code leaves there when no deletion is broken off: a row
stands at its id with a name and an address, and comments and identities belong to users
that exist. The configurations give TLC tables for which it evaluates that assumption.

**EmailVerify** (`ServerProofs`), for any number of simultaneous sends and checks,
any attempt limit, lifetime and cooldown:

* `TypeCorrect`: `TypeOK` is an invariant.
* `AcceptedOnce`: *AcceptedAtMostOnce*, and `WithinBudget`: *AttemptBudget*. Neither is
  inductive: that a comparison may be charged depends on the row, which a resend may
  have replaced. The inductive invariant is `IInv`: the two properties and `Ledger`,
  which says that every row of the table belongs to exactly one issuance, that its
  `attempts` column and its code agree with what was spent on that issuance, and that a
  check which is about to write has seen an open challenge. The compare-and-swap
  (`CasIInv`) then spends only what the row it matches still has; a new issuance
  (`IssueIInv`) starts a fresh account; all other steps leave rows and issuances alone
  (`FrameIInv`, `SendFrame`, `CheckFrame`).
* `LockoutNeverLifted`: *LockoutKept*, an action property. It needs `IInv` and `TimeInv`
  (a send's idea of the time is not ahead of the clock), because the conditional
  replacement in `AuthEmailSend` compares with the time that it read.
* `SendsOrdered`: *SendsInOrder*. The table has no unique index; that one challenge per
  address remains rests on the lock of the stripe. `OrderInv` says that a stripe is held
  by at most one running send (`Exclusive`), that what this send has read of its address
  is still so (`SendGuard`), and that mails are of codes already written (`Mailed`).
* `RefusedIfDead`: *RefusedOnlyIfDead*. A check may lose its compare-and-swap to another
  one `MaxAttempts` times; each loss is an attempt that somebody else has spent. With
  `RefuseInv` (`CheckGuard`: the rounds a check has lost are attempts charged since its
  first reading) a check that gives up has seen the challenge exhausted. `Ages` states
  once for all steps that rows only grow older: no row regains attempts, its code or an
  earlier issuance (`NeverRevived`).

**Votes** (`VotesProofs`), for any number of simultaneous votes, syncs, edits and
deletions on any number of targets, whichever statements and saves fail:

* `VotesOnce`: *OneVotePerIP*. The inductive invariant `VoteInv` says that a vote holds
  the lock of its target from its first statement to its commit (`LockHeld`), and that
  what it found there of its client is everything there is (`FoundAll`): nobody else can
  add a vote under that lock, and deletions only take away. The commit (`CommitStep`)
  therefore replaces all votes of the client by at most one.
* `CountsAlwaysRight`: *CountsRight*. `CountInv` adds that a vote that is about to commit
  has counted the votes as its commit will leave them (`VotesCounted`), that a sync which
  nobody has disturbed has counted, row by row, what is there (`SyncsCounted`), and that
  as long as only votes have written every row is right (`OnlyVotesCount`).

**Social** (`VisitorsProofs`), for any people, settings, browsers, tabs, flows and
changes:

* `IdentitiesSound`: *SocialSound*. `LoginsOwn`: *LoginOwn*, an action property.
* `SocialInv` follows a profile through the login: the ways back from a provider are
  unique by code, each of one person, and by state if the program drew it (`Ways`,
  `Given`); what a callback took from its session is a flow of its own browser, and the
  code it exchanges is of that flow unless the provider has no state or the state was
  brought along (`EntryOK`, `FlowOK`); the provider it asks is the one the settings name,
  unless they changed under it (`ConfOK`); and the identity and the user it found or made
  are those of the profile (`RidOK`, `Book`). What goth has registered is what the
  settings say while no reload runs and none has overlapped another since one ran alone
  (`Settings`); a reload that runs alone has, place by place, done its part of that
  (`Reloaded`).
* The module assumes that names of providers and the address of the self-hosted server
  are not empty: `giteaSiteURL` returns a default for an empty address, and the list of
  names is fixed in the code.

**ActionLimiter** (`AccessProofs`), for any limit, time-out and number of clients,
requests, images and ticks of a second:

* `CreditKept`: *WithinCredit*. The credit of the property is a ledger the code does not
  keep; the stores hold the same information only between requests. `Resting` states how:
  what the count leaves of the limit, or, where every action needs a captcha, one if the
  client is verified. `Fit` states it for each place in a request: an action has been
  paid and not counted, counted and the verification not yet withdrawn, and so on.
  `CaptchaInv` claims this of clients whose requests have never overlapped, which a
  request can rely on because it is the only one of its client (`Apart`).
* `TimeoutKept`: *ResetInTime*, also for requests that overlap. The time in the store is
  that of the last log in whole seconds (`ClientOK`); the error of at most one second
  comes from `Floor` (what division by `TicksPerSecond` drops), in `TimeoutTells`.
* `LatestImageOnly`: *OnlyLatestImage*, from the part of `ClientOK` that says that the
  store holds the image generated last or none: deletions of an image found expired may
  hit a fresh one, but never bring an old one back.
* The module assumes that `Nil` is no image and no time.

**Accounts** (`AccountsProofs`), for any number of users, names, addresses, requests,
seconds and expiring entries:

* `UsersAlwaysSound`: *UsersSound*. `RevokedStayRefused`: *RevokedStays*, at every moment
  and not only between requests. Both hold as far as the properties claim them, while
  requests follow one another (`plain`); types and shape hold whatever overlaps.
* The inductive invariant `AccountsInv` has two parts. `Shape` is unconditional: what
  the tables, each cache and each request hold at each statement (`Stage`), and that
  nobody holds a password change of the future (`Person`). `InOrder`, while `plain`,
  relates them. Its centre is the set of *known* users: those with a row, and the one
  whose row `DelUser` has deleted while its cache entries and belongings are still
  there. `Ordered` says that caches hold known users only, and a missing user only where
  there is no row; that no known user is older than the last change of his password;
  that comments and identities belong to known users; and that ids are given out in
  order. `Copies` says what a request needs of the copies it works with: `SaveOK`,
  before `Save` writes the whole row, that the row exists, that the copy is not older
  than the last password change, and that either the name and address are those of the
  row or the entries of the old ones have been dropped. Neither property is inductive
  without these.
* `OrderedInsert`, `OrderedSave`, `OrderedDelete` and `OrderedRest` are about the tables
  alone, one for each kind of statement; `Arrival` reduces every arriving request to the
  entries it fills, `WorkStep` and `QuietStep` every later statement to the tables.

**Uploads** (`ServerProofs`), for any number of requests, settings and files, whichever
writes and removals fail: `UploadsCorrect`, *UploadsSound*. `UploadInv` says what a
request's file holds at each of its steps while no other request has its name (`Holds`),
that a file is kept only by a removal that failed at the end of its request
(`KeptLate`), that two requests that have one name are both marked (`Apart`; names are
never given back), that a file is written only by requests of its name (`Owners`), and
that whoever has a name has passed the checks (`Stage`).

**PageFetch** (`BackgroundProofs`), for any number of overlapping fetches, of URLs and
origins, any redirect budget, interval, time-out and number of places:

* `FetchCorrect`: *FetchSound*. `SlotsRefined`: *SlotsKept*, the implementation of
  `FetchSlots`: initial states map to initial states and every step to a start, a stop,
  the passing of time or a stutter (`SlotsStep`).
* The inductive invariant `Safe` adds to the types that each place of the limiter
  belongs to one automatic fetch that was sent (`Limited`: `active` equals the URLs
  held, each by one fetch, and there are at most `MaxConcurrent`), that kinds of fetches
  stay with their places in the code (`AtKind`), and the status in terms of fetches
  (`StatusHolds`). `StepEffect` states what a step does to `active` and `wait` once for
  all actions; the refinement and `LimitedStep` follow from it.

**RateLimiter** (`AccessProofs`), for any set of keys, limits and window:

* `RateCorrect`: *RateSound*, from `RateInvariant` (types, retained keys at most the
  total, `expires` equal to the beginning of the window plus its length, windows apart).
* `RateTypeCorrect`: no counter exceeds its limit. `MemoryBounded`: the map is bounded
  whatever keys callers make up. `WindowsDisjoint`: a window begins only after the one
  before it has lasted its full length, which is why two limits bound every interval.

**Pages** (`PagesProofs`), for any finite set of requests, any number of rows and views:

* `OneRowForAPage`: *PagesSound*. `TheRowIsKept`: *RowKept*, an action property.
* `PagesIInv`: every copy of the page, wherever it is kept, is of a row that was made
  and counts at most the views that are in the table for good (`CopiesKnown`); whoever
  is in the middle of a query or of a creation leads its singleflight group (`Leaders`);
  and, while nothing is deleted or expires and no creation was given an older answer
  (`late`), `Single`: as long as the row is missing, whoever leads the creation has seen
  an empty answer, which is in the cache if that is on, so that no query that will be
  stored can be under way; once the row exists, an empty answer is cached only until the
  leader replaces it, and nobody waits for one.
* The module assumes that the requests are finitely many, since views are counted by
  them, and that the mark of an empty cache is no page.

**Sites** (`PagesProofs`), for any number of requests, names, rows and pages:
`SitesStayRight`, *SitesSound*. What the property claims it claims while no two changes
have overlapped (`muddled`). `SitesIInv` then says that whoever changes a site is alone
(`Alone`), and gives for each statement of a creation, a rename and a deletion what the
tables and caches are in the middle of it (`Place`: `Renaming` has moved some pages and
will move those on its list, `Deleting` has a name without a row). Where nobody is in
the middle of a change everything is `Settled`. The cached page of a name is right
unless a rename has given the name up or is about to (`PagesKnown`).

**NotifyFlow** (`SettingsProofs`), for any administrators (a sequence of users without
repetition), settings, number of moderators and of mails in the queue:
`RecipientsRight`, *Recipients*. `FlowInv` counts. The job has mailed an administrator
only if his number is among those `Due` and it is past it (`AdminsOnce`); the author of
the parent has as many mails as approvals and the job account for, together with the
requests that are about to mail him (`ParentCounted`); mails sent, in the queue and in
the worker's hand are at most those queued (`SentOnce`); and every copy of a row that
says "emailed" is of somebody who was mailed (`CopiesTrue`), which is why the saves of
old copies do no harm to this property.

**AntiSpam** (`VotesProofs`), for any letters, keywords, contents and services:
`ModerationRight`, *SpamSound*. Keywords are matched last (`KeywordsLast`), a flag ends
the check (`FlagEnds`), and the comment is, or after the callback will be, held exactly
for a reason and without a keyword where the settings promise it (`HeldForReason`,
`CleanToBe`). The last part is about masking: replacing one keyword after another by a
mask leaves none of them. The lemmas show by induction over the number of keywords that
every letter of an occurrence is masked (`Starred`) and that what is masked stays so.

**Migration** (`ServerProofs`), for any comments, parents, ages of the database, faults
and launches: `UpgradeSound`, *MigrationSound*. `MigrationIInv` gives for each stage of a
launch what the schema has reached (`SchemaFits`), that the proofs are in the column that
is there (`ProofsPlaced`), that whatever comment a migration or a visitor has reached has
the root of its thread if its chain of parents ends (`RootsTrue`), and that the first
launch misses none as long as nothing failed (`NoneMissed`). Parents may have any ids,
since an import numbers replies as it likes, and may form circles. A chain is a path of
`MaxComment` steps, so that one that has not ended has passed some comment twice
(`PathFits`, by the pigeonhole principle). The recursive query, which passes through
deleted comments, and the loop, which stops at them, find the same root where both find
one, since more rows lead no further from an end (`TopMore`), and a comment that is
written changes no chain that does not pass through it (`TopSame`). The module assumes of
the database that is found that no comment answers one that is yet to be written, and
that its columns fit together.

**CommentTree** (`VisitorsProofs`), for any number of comments (at least one), requests
and versions: `CommentsSound`, *TreeSound*, and `FlushesReach`, *FlushRefreshes*, an
action property. `TreeInv` is about the request that runs when no two overlap. An entry
is fresh, or that of a comment whose last save failed (`Unsaved`), or the request has just
written its row and not the entry (`HasWritten`); what the request carries is what the
table holds, or what could not be saved (`Carries`); a deletion has the replies of
its comment on its list or is about to read them (`Deletes`); a flush still has before
it whatever is not fresh (`FlushLeft`).

**Listing** (`AccessProofs`), for any tables, viewers, requests and page sizes:
`ListsSound`, *ListingSound*. In an order without ties a row has a rank, the number of
rows before it. `RankIsPlace` shows that in a sorted answer the row of rank r stands at
position r + 1, whichever of the possible answers the database gives. The invariant says
that of what was to be listed all is still there (`StillDue`), that what has a rank
below the length of the list has been seen, and everything at the end (`SeenSoFar`);
new comments raise ranks and never lower them. A list by ascending date, or one nobody
disturbs, holds at position i the row of rank i - 1 (`Beginning`), hence each row once,
and what is counted is what is there (`CountsTrue`). For *NoticesFound* the invariant is
about copies, since an edit saves the copy it was given: the copies of a comment answer
the same comment and have the author of its row, unless it was deleted or given to
another author (`CopiesFit`), and a notification is for an author of what its comment
answers, or for an administrator (`NoticesAnswer`). The module assumes finite tables
with ids of their own.

**Lifecycle** (`BackgroundProofs`), for any number of requests, jobs, mails and restarts
and any mixture of files: `ApplicationSound`, *AppSound*. `AppInv` states, for overlapping
restarts, that only the holder of the mutex bootstraps (`LockHeld`), that the handle is
open once nobody is left who will forget it (`HandleFit`, `CacheFit`), and that what a
bootstrap has built so far stands if all others are outside a restart, since none of them
can have finished before it (`BootBuilds`, `Serves`). For restarts one after the other it
adds, place by place, which databases, caches and queues may be open (`NothingLeft`) and
that the configuration is the file (`FileFollowed`); a job that has met no restart sees
the present queue (`SteadyJobs`). The module assumes that jobs, requests and the other
goroutines have different names.

**Startup** (`SettingsProofs`), for any files, contents, variables of the environment and
flags, and any number of starts: `StartsSound`, *StartupSound*. `ConfigSound` follows a
configuration through every patch: no scalar that is set is lost (`Kept`) but the ones
`Superseded` names, and each patch leaves what it is there for. `Goal` is the file a start
without the flag ends with, seen from any of its steps (`Stages`); a file that is
generated becomes the goal of all later starts, so that every start reads the same
`app_key` (`Signed`). The module assumes that the keys that are drawn are not blank.

Induction over data has a limit here: the library's induction theorems take an operator
as a parameter, which the provers cannot instantiate. Where a definition computes along
the numbers (`AntiSpam`, `Migration`) the proofs use the set of numbers for which a fact
holds instead (`AllNumbers`: a set with 0 and all successors has every number).

Only model-checked: all liveness properties and *NoneStuck* (fairness and `ENABLED` are
out of the prover's reach); *LimitsExact*, which sums over sets; *TransferSound* and
*ImportExact*, whose recursive definitions compute over files; *MergeExact*, since that a
merge visits every user of its list once is a fact about sorting a set.

## 7. Behaviour the properties except

The models are of the code as it is. Where a stronger property fails on the model, the
property is stated with the condition under which it holds, and the case is recorded
here.

* **Whole-row saves.** `PageUpdate` saves the row it found: views counted in between are
  lost and a page deleted in between returns. `VoteSync` (`dao/service.go:185`) and the
  renaming of a site (`site_update.go:81`) save whole page rows too; in the models they
  write their own columns only. An edit of a comment sets its vote counters back until
  the next sync. A comment that overlaps a password change writes the old
  `TokenValidFrom` back.
* **Votes.** A vote that commits between the count and the save of `VoteSync` is missing
  from the counters until the next sync. A save that fails in it leaves the unsaved
  counters in the cache. `DelComment` deletes votes and row without a transaction (a
  TODO in the code).
* **Cache.** A reader that queried before a concurrent write and stores after it leaves
  a stale entry for its time to live. A reply list restarted after it expired lacks
  older replies, so that the cascade of a deletion may miss replies further down. A
  flush skips the entries of rows that are gone. `CreateUser` leaves the cached id list
  of the address alone; a merge that uses it may miss a new account and take
  administrator rights from a target it misses. A profile update leaves the entries of
  the old name and address. `UserUpdate` clears the cache before it saves, and refuses a
  duplicate only if name and address both change. `UpdateUser` and `UpdateComment` cache
  also after a failed save, which leaves what was never written in the cache.
* **Notifications.** Renotification ignores whether the recipient wants mail; a second
  approval while the mail is queued mails again; the mail is queued before the approval
  is saved; `OnSendSuccess` saves an old copy and may mark a read notification unread;
  of administrators who share an address only the first is considered.
* **Restart.** A failed restart, or one with another time zone, leaves the application
  without a handle. An invalid file is saved before it is parsed. Overlapping settings
  requests may leave file and configuration different and leak handles. A push to a
  queue that is being closed panics. Mails in the queue are lost when the process ends.
* **Captcha.** Overlapping requests of one client count as one. A solved image stays
  valid. `Get` and the clean-up may delete an image that was stored anew after they
  found the old one expired. A service that answers with another status than 200 makes
  the checker fail without an error, whose text the handler then reads (`Panic`).
* **Merge of accounts.** The statements are not in the transaction (**merge_rollback**).
  The lock is that of the requesting account: two accounts of one address that merge at
  the same time into each other lose what both own.
* **Social login.** The settings are read twice by a callback: if they change in
  between, the profile of one server is filed under another. A user of a self-hosted
  server gets an account of his own, which a later login through another provider may
  join by name and address. Overlapping changes of the settings reload the providers
  without a lock and may leave those of older settings registered until one change runs
  alone. A state that a browser brings as `?state=` is taken as it is: whoever knows it
  can end such a flow, which *LoginOwn* therefore excepts. Providers without a state
  parameter cannot tell whose flow returns.
* **Uploads.** A refused file whose removal fails stays: the error is only logged. Two
  images of one kind in one millisecond share a name. A write that fails leaves a
  partial file. The upload of a file to import ignores an error of its write, and its
  temporary files are never removed.
* **Anti-spam.** A comment that an earlier checker has blocked is never masked. With an
  empty replacement removed keywords may leave letters that form a new one. A masked
  text overwrites a moderator's edit made during the check. Services have no time-out.
* **Sites.** Overlapping changes of sites mix their rows; `UpdateSite` caches the row
  also when the unique index has refused it; a name that a rename has given up and that
  is used again finds the old pages in the cache.
* **Lists.** A deletion removes the comment first and then the replies that the cached
  lists name: it may miss some, or fail part-way. The edit of a cached copy brings back
  a row that was deleted meanwhile. Rows of equal dates have no tie-breaker. Approved
  replies below a hidden root are counted and not shown. Deletions, edits and approvals
  move rows across the offset of the next page. A limit of zero lists nothing. The
  report of pages with most comments counts by key alone, so that pages of two sites are
  counted together.
* **Import.** Comments that are skipped shift the positions by which replies are
  renumbered; *ImportExact* is stated for files whose skipped comments come last. A page
  deleted during an export leaves comments without a key, which an import skips.
* **Migration.** A process killed after the column `root_id` was added and before it was
  filled leaves old replies without a root; later launches see the column and only the
  environment variable `ATK_DB_MIGRATOR_FUNC_MIGRATE_ROOT_ID` repairs it. Where the
  dialect has no recursive queries, roots get their own id, and replies to missing
  comments the missing id. Replies whose parents form a circle get a root that is one of
  them. An old index outlives a rename that was interrupted. Errors of several
  statements are dropped. The merge of pages (**merge_pages**) also joins site and key
  without a separator.
* **Start.** The deprecated options `notify`, `mail_subject_to_admin` and
  `pending_default` override what the environment sets for their successors. A variable
  for one element of a list replaces the list of the file and leaves empty elements
  before it. Flags behind those of a command are not seen by the early search.
* **Pages.** Deletion, or an answer that expires, between the steps of a creation allows
  a second row (**pages_twice**). So do three overlapping first requests without either:
  the lookup of a second creation joins one still under way that found nothing (`late`).

## 8. What is not modelled, and the plan

Not modelled because it is input, output or conversion without a decision or state of
its own: mail and message senders, templates, translations, IP regions, hooks, the ban
list, routing and CORS, the remaining lists and reports (queries), the test mail (one
push into the queue), the generated API documentation and configuration metadata, the
browser client, the Telegram bot and deployment scripts. Left out of modelled parts:
links, badges and addresses of the last request in `Accounts`; renaming a page key; the
HTML tokenizer of the title fetcher; which database driver and TLS settings are used;
options that no patch reads. `PROJECT.json` states this per component.

Next, in this order:

1. Proofs: *TransferSound* for files whose comments are in order.
2. An abstract specification of the mail queue (accepted mails are handled once, in
   order) that both `NotifyFlow` and `Lifecycle` implement.
3. Renaming a page key together with its comments, in `Pages`.

## 9. Running the checks

In this directory: `tlc -workers 2 -config <cfg> <module>` for every run in
`PROJECT.json`, `tlapm <module>` for the proof modules. Each run takes about a
minute on two cores, each proof module between a few minutes and a quarter of an hour.
